---- MODULE Spec2Model ----
(***************************************************************************)
(* Smart-SupplyChain-Agent: the cycle engine (LangGraph pipeline with the  *)
(* Finance <-> Negotiation loop), the controller's checkpoint writer, the  *)
(* job lifecycle and the SSE event stream.                                 *)
(*                                                                         *)
(* Money is kept in whole cash units; projected values are kept doubled    *)
(* (value2 = 2 x projected_value) so that the x1.5 heuristic stays integer.*)
(***************************************************************************)
EXTENDS Integers, Sequences, FiniteSets, TLC

(* ------------------------------ bounds --------------------------------- *)
NumSkus == 2

SKUS == 1..NumSkus

(* ------------------------- program constants --------------------------- *)
DEFAULT_BUDGET == 600
REVENUE_REINVESTMENT_RATE_PCT == 30
MAX_NEGOTIATION_ROUNDS == 3
STOCKOUT_RISK_HIGH_MULTIPLIER == 10
STOCKOUT_RISK_MEDIUM_MULTIPLIER == 2
MIN_CONFIDENCE_PCT == 30
RecursionLimit == 25
approval_threshold == 1000

(* ------------------------------ helpers -------------------------------- *)
Max(a, b) == IF a >= b THEN a ELSE b

Min(a, b) == IF a <= b THEN a ELSE b

RECURSIVE SumOver(_, _)
SumOver(f, S) ==
  IF S = {} THEN 0
  ELSE LET x == CHOOSE y \in S : TRUE IN f[x] + SumOver(f, S \ {x})

Range(s) == {s[i] : i \in 1..Len(s)}

Perms(n) == {p \in [1..n -> 1..n] : \A i, j \in 1..n : p[i] = p[j] => i = j}

(* every order in which a thread pool's as_completed may hand back results *)
Reorderings(s) == {[i \in 1..Len(s) |-> s[p[i]]] : p \in Perms(Len(s))}

RECURSIVE Concat(_)
Concat(ss) == IF ss = <<>> THEN <<>> ELSE Head(ss) \o Concat(Tail(ss))

(* floor of the square root, by bisection on [lo, hi] *)
RECURSIVE ISqrtBetween(_, _, _)
ISqrtBetween(n, lo, hi) ==
  IF lo >= hi THEN lo
  ELSE LET mid == (lo + hi + 1) \div 2
       IN IF mid * mid <= n THEN ISqrtBetween(n, mid, hi)
          ELSE ISqrtBetween(n, lo, mid - 1)

(* 46340 = floor(sqrt(2^31 - 1)) keeps mid * mid inside the integers *)
ISqrt(n) == ISqrtBetween(n, 0, Min(n, 46340))

(* --------------------------- the store's rows -------------------------- *)
(* One inventory row together with what the sales table and the forecaster *)
(* yield for it: demand = mean daily sold quantity, conf = forecast        *)
(* confidence in percent, fc_err / an_err = the per-SKU forecast / metric  *)
(* extraction raises.                                                      *)
Row(q, t, p, act, d, c, fe, ae) ==
  [quantity |-> q, threshold |-> t, unit_price |-> p, reorder_cost |-> 25,
   min_order_qty |-> 1, pending |-> 0,
   is_active |-> act, demand |-> d, conf |-> c, fc_err |-> fe, an_err |-> ae]

InventoryRows ==
  { Row(2, 50, 10, TRUE, 0, 0, FALSE, FALSE),
    Row(10, 60, 10, TRUE, 24, 90, FALSE, FALSE),
    [Row(40, 30, 10, TRUE, 10, 90, FALSE, FALSE) EXCEPT !.pending = 386],
    Row(100, 10, 10, TRUE, 2, 80, FALSE, FALSE),
    Row(20, 10, 10, TRUE, 0, 80, FALSE, FALSE),
    Row(20, 10, 10, TRUE, 3, 20, FALSE, FALSE),
    Row(5, 10, 30, TRUE, 2, 80, TRUE, FALSE),
    Row(5, 10, 30, TRUE, 2, 80, FALSE, TRUE),
    Row(5, 10, 30, FALSE, 2, 80, FALSE, FALSE),
    [Row(5, 10, 30, TRUE, 2, 20, FALSE, FALSE) EXCEPT !.min_order_qty = 20] }

(* the sales window holds one sale per SKU and day, each of `demand` units; *)
(* its revenue is the sum of sold_quantity x unit_price                    *)
WindowDays == 7

SalesRevenue(db) ==
  SumOver([s \in DOMAIN db |-> WindowDays * db[s].demand * db[s].unit_price],
          DOMAIN db)

VARIABLES
  store,          \* SKU -> row: the inventory table and its sales
  sales_revenue,  \* sum of sold_quantity x unit_price over the 7-day window
  cs,             \* the CycleState threaded through the graph
  pc,             \* the node the graph runs next
  steps,          \* supersteps taken by app.invoke
  ran,            \* the nodes run so far, in order
  events,         \* the log_event calls of the cycle, in emission order
  result,         \* what run_cycle handed back: none / completed / raised
  caught,         \* stages whose own handler caught an error
  checkpoints,    \* rows of agent_checkpoints written by the controller
  _streams,       \* StreamManager._streams: cycle_id -> the events put on its queue
  orders,         \* the rows ActionNode.execute has committed to the orders table
  job_status,     \* jobs.status of the job in the store ("none": no row)
  job_error,      \* jobs.error of the job ("": NULL)
  sessions,       \* the store sessions the stream request holds open
  worker,         \* where the background task _execute_agent_cycle stands
  queue,          \* the job's deque in JobStreamManager._job_events
  emitted,        \* number of log_event calls made for the job
  restarts,       \* server restarts so far
  consumer,       \* where the SSE progress_generator stands
  frames,         \* the frames the generator has yielded, in order
  sent_events,    \* the generator's set of event keys already sent
  last_status,    \* the generator's last_status
  polls,          \* iterations of the generator's polling loop completed
  cycle_count,    \* AgentController.cycle_count
  recovery,       \* what the last recovery request selected
  job_events,     \* JobStreamManager._job_events[job_id]: <<>> or <<deque>>
  deques,         \* every deque get_queue has created, by identity
  threads,        \* where each thread stands in log_event / get_queue
  calls,          \* log_event / get_queue calls begun so far
  appended,       \* the events whose queue.append has returned, in order
  forecasting,    \* forecast_node's locals while it walks items_to_forecast
  kernel          \* one call of a decision-kernel function: input and result

cycle_vars == <<store, sales_revenue, cs, pc, steps, ran, events, result,
                caught, checkpoints, _streams, orders>>

stream_vars == <<job_status, job_error, sessions, worker, queue, emitted, restarts, consumer,
                 frames, sent_events, last_status, polls>>

recovery_vars == <<cycle_count, recovery>>

bus_vars == <<job_events, deques, threads, calls, appended>>

vars == <<cycle_vars, stream_vars, recovery_vars, bus_vars, forecasting, kernel>>


(* ----------------------------- dict access ----------------------------- *)
Get(r, k, d) == IF k \in DOMAIN r THEN r[k] ELSE d

(* a falsy field falls through an `a or b` chain *)
OrElse(a, b) == IF a # 0 THEN a ELSE b

(* ------------------------------- events -------------------------------- *)
Ev(type, stage) == [type |-> type, stage |-> stage, dtype |-> "", sku |-> 0]

Dialogue(stage, dtype, sku) ==
  [type |-> "agent_dialogue", stage |-> stage, dtype |-> dtype, sku |-> sku]

(* ----------------------------- CycleState ------------------------------ *)
(* the pseudo-SKUs under which a whole stage's failure is recorded; SKUs   *)
(* proper are 1..NumSkus                                                   *)
DATA_FETCH == 0

FORECAST_NODE == -1

add_error(st, sku, msg) ==
  [st EXCEPT !.errors = Append(@, <<sku, msg>>),
             !.failed_skus = IF sku \in Range(@) THEN @ ELSE Append(@, sku)]

InitialState(recent_revenue) ==
  [inventory_data |-> <<>>, sales_by_sku |-> <<>>, forecast_results |-> <<>>,
   analyzed_skus |-> <<>>, constrained_skus |-> <<>>, decisions |-> <<>>,
   actions |-> <<>>, agent_dialogues |-> <<>>, errors |-> <<>>,
   failed_skus |-> <<>>, budget |-> DEFAULT_BUDGET,
   recent_sales_revenue |-> recent_revenue, finance_feedback |-> "",
   finance_rejections |-> <<>>, counter_arguments |-> <<>>,
   negotiation_rounds |-> 0,
   max_negotiation_rounds |-> MAX_NEGOTIATION_ROUNDS,
   negotiation_proposals |-> <<>>, budget_remaining |-> 0,
   streamed_dialogues_count |-> 0, pending_orders_by_sku |-> <<>>]

(* ------------------------------- Fetch --------------------------------- *)
(* the columns fetch_data_node copies; is_active, min_order_qty and        *)
(* max_order_qty are not among them                                        *)
FetchRecord(row) ==
  [quantity |-> row.quantity,
   threshold |-> OrElse(row.threshold, 10),
   reorder_cost |-> row.reorder_cost,
   unit_price |-> row.unit_price,
   holding_cost_pct |-> 15,
   lead_time_days |-> 7,
   safety_stock |-> 5]

(* the quantities of the SKU's orders with status Pending, summed; a SKU   *)
(* without such an order has no entry                                      *)
PendingOrders(db) ==
  [s \in {x \in DOMAIN db : db[x].pending > 0} |-> db[s].pending]

(* mutant of fetch_data_node: total_revenue is not reset before the sum *)
fetch_data_node_Accumulates(st, db, revenue, db_ok) ==
  IF db_ok
  THEN [st EXCEPT !.inventory_data = [s \in DOMAIN db |-> FetchRecord(db[s])],
                  !.sales_by_sku = [s \in DOMAIN db |-> db[s].demand],
                  !.recent_sales_revenue = @ + revenue,
                  !.pending_orders_by_sku = PendingOrders(db)]
  ELSE add_error(st, DATA_FETCH, "error")

fetch_data_node(st, db, revenue, db_ok) ==
  IF db_ok
  THEN [st EXCEPT !.inventory_data = [s \in DOMAIN db |-> FetchRecord(db[s])],
                  !.sales_by_sku = [s \in DOMAIN db |-> db[s].demand],
                  !.recent_sales_revenue = revenue,
                  !.pending_orders_by_sku = PendingOrders(db)]
  ELSE add_error(st, DATA_FETCH, "error")

(* ------------------------------ Forecast ------------------------------- *)
(* the sum of the 7-day forecast list: with the same quantity sold every   *)
(* day the statistical forecast repeats the daily average seven times      *)
ForecastTotal(demand) == 7 * demand

(* StreamManager.emit: the event is put on the cycle's queue if            *)
(* create_stream has made one, and dropped otherwise                       *)
emit(streams, cycle_id, event) ==
  IF cycle_id \in DOMAIN streams
  THEN [streams EXCEPT ![cycle_id] = Append(@, event)]
  ELSE streams

(* forecast_node's loop: one forecast event for every result whose total   *)
(* exceeds 100                                                             *)
RECURSIVE EmitHighDemand(_, _, _)
EmitHighDemand(streams, cycle_id, forecasts) ==
  IF forecasts = <<>> THEN streams
  ELSE LET f == Head(forecasts) IN
       EmitHighDemand(IF f.total_demand > 100
                      THEN emit(streams, cycle_id, [type |-> "forecast", sku |-> f.sku])
                      ELSE streams,
                      cycle_id, Tail(forecasts))

RECURSIVE ForecastLoop(_, _, _, _)
ForecastLoop(st, db, todo, acc) ==
  IF todo = <<>> THEN [st EXCEPT !.forecast_results = acc]
  ELSE LET s == Head(todo) IN
       IF db[s].fc_err
       THEN ForecastLoop(add_error(st, s, "Forecast failed"), db, Tail(todo), acc)
       ELSE ForecastLoop(st, db, Tail(todo),
                         Append(acc, [sku |-> s, confidence |-> db[s].conf,
                                      total_demand |-> ForecastTotal(db[s].demand)]))

SkuOrder(S) == SelectSeq([i \in 1..NumSkus |-> i], LAMBDA s : s \in S)

forecast_node(st, db, node_ok) ==
  IF node_ok
  THEN ForecastLoop(st, db, SkuOrder(DOMAIN st.inventory_data), <<>>)
  ELSE add_error(st, FORECAST_NODE, "error")

(* --------------------------- Decision kernel --------------------------- *)
extract_metrics(sku_item, forecast, daily_avg) ==
  [current_stock |-> Get(sku_item, "quantity", 0),
   pending_orders |-> 0,
   daily_avg_demand |-> daily_avg,
   forecast_confidence |-> forecast.confidence,
   lead_time_days |-> Get(sku_item, "lead_time_days", 7),
   unit_cost |-> Get(sku_item, "unit_price", 10),
   holding_cost_pct |-> Get(sku_item, "holding_cost_pct", 15),
   reorder_cost |-> Get(sku_item, "reorder_cost", 25),
   min_order_qty |-> Get(sku_item, "min_order_qty", 1)]

process_metrics(st, db, f) ==
  LET inventory_item == Get(st.inventory_data, f.sku, <<>>) IN
  [sku |-> f.sku,
   metrics |-> extract_metrics(inventory_item, f, Get(st.sales_by_sku, f.sku, 0)),
   inventory_item |-> inventory_item]

(* a SKU whose metric extraction raises yields None and is left out.  The   *)
(* workers' completion order only fixes the order in which optimize_cost   *)
(* submits its own futures, whose completion order is arbitrary again, so  *)
(* the list is kept in submission order here.                              *)
analyze_trends_node(st, db) ==
  LET ok == SelectSeq(st.forecast_results, LAMBDA f : ~db[f.sku].an_err)
  IN [st EXCEPT !.analyzed_skus =
        [i \in 1..Len(ok) |-> process_metrics(st, db, ok[i])]]

ConstraintOutcome(item) ==
  IF ~Get(item.inventory_item, "is_active", TRUE) THEN "inactive"
  ELSE IF item.metrics.forecast_confidence < MIN_CONFIDENCE_PCT
       THEN IF item.metrics.current_stock < Get(item.inventory_item, "threshold", 10)
            THEN "fallback" ELSE "hold"
       ELSE "proceed"

FallbackQty(item) ==
  Max(item.metrics.min_order_qty,
      2 * Get(item.inventory_item, "threshold", 10) - item.metrics.current_stock)

RECURSIVE ConstraintLoop(_, _)
ConstraintLoop(todo, acc) ==
  IF todo = <<>> THEN acc
  ELSE LET item == Head(todo)
           o == ConstraintOutcome(item)
       IN IF o \in {"inactive", "hold"} THEN ConstraintLoop(Tail(todo), acc)
          ELSE ConstraintLoop(Tail(todo),
                 Append(acc, [sku |-> item.sku, metrics |-> item.metrics,
                              inventory_item |-> item.inventory_item,
                              constraint_decision |-> o,
                              fallback_qty |-> IF o = "fallback"
                                               THEN FallbackQty(item) ELSE 0]))

check_constraints_node(st) ==
  [st EXCEPT !.constrained_skus = ConstraintLoop(st.analyzed_skus, <<>>)]

calculate_eoq(m) ==
  LET annual_demand == m.daily_avg_demand * 365
      holding100 == m.unit_cost * m.holding_cost_pct
  IN IF annual_demand < 1 \/ m.reorder_cost < 1 THEN m.min_order_qty
     ELSE IF holding100 < 1 THEN m.min_order_qty
     ELSE Max(ISqrt((2 * annual_demand * m.reorder_cost * 100) \div holding100),
              m.min_order_qty)

(* int(lead_time_demand + z_score * daily_avg_demand * volatility_factor)  *)
(* with the demand in tenths of a unit and the volatility in percent; the  *)
(* engine's service level is 0.95, so z_score = 1.65; int() truncates      *)
DynamicReorderPoint(demand_tenths, lead_time_days, volatility_pct) ==
  LET volatility_factor == Max(50, Min(200, volatility_pct))
  IN (demand_tenths * lead_time_days * 10000
        + 165 * demand_tenths * volatility_factor) \div 100000

(* the pipeline's demands are whole units and its volatility the default  *)
(* 0.3, which the factor raises to 0.5                                     *)
calculate_dynamic_reorder_point(m) ==
  DynamicReorderPoint(10 * m.daily_avg_demand, m.lead_time_days, 30)

(* the result of process_optimization for one item; "error" marks the      *)
(* caught exception (formatting days_until_stockout = None).  The urgency  *)
(* is followed for the override and the fallback decision only.            *)
process_optimization(item) ==
  LET m == item.metrics
      threshold == Get(item.inventory_item, "threshold", 10)
      current_stock == Get(item.inventory_item, "quantity", 0)
  IN IF current_stock < threshold
     THEN [sku |-> item.sku, reorder_required |-> TRUE,
           order_quantity |-> Max(m.min_order_qty, 2 * threshold - current_stock),
           urgency_level |-> "HIGH",
           details |-> [type |-> "threshold_override", unit_price |-> m.unit_cost],
           cost_analysis |-> [purchasing_cost_per_unit |-> m.unit_cost]]
     ELSE IF item.constraint_decision = "fallback"
     THEN [sku |-> item.sku, reorder_required |-> TRUE,
           order_quantity |-> item.fallback_qty,
           urgency_level |-> "HIGH",
           details |-> [type |-> "fallback", unit_price |-> m.unit_cost],
           cost_analysis |-> [purchasing_cost_per_unit |-> m.unit_cost]]
     ELSE IF m.daily_avg_demand = 0
     THEN [sku |-> item.sku, error |-> TRUE]
     ELSE LET eoq == calculate_eoq(m)
              reorder_point == calculate_dynamic_reorder_point(m)
              effective_stock == m.current_stock + m.pending_orders
              reorder_required == effective_stock < reorder_point \/ effective_stock = 0
          IN [sku |-> item.sku, reorder_required |-> reorder_required,
              order_quantity |-> IF reorder_required
                                 THEN Max(0, reorder_point + eoq - effective_stock)
                                 ELSE 0,
              details |-> [reorder_point |-> reorder_point, eoq |-> eoq,
                           lead_time_days |-> m.lead_time_days],
              cost_analysis |-> [purchasing_cost_per_unit |-> m.unit_cost]]

OptimizedDecisions(st) ==
  LET all == [i \in 1..Len(st.constrained_skus) |->
                process_optimization(st.constrained_skus[i])]
  IN SelectSeq(all, LAMBDA r : "error" \notin DOMAIN r)

Reorders(ds) == SelectSeq(ds, LAMBDA d : d.reorder_required)


(* ------------------------------- Finance ------------------------------- *)
Budget(st) ==
  DEFAULT_BUDGET + (st.recent_sales_revenue * REVENUE_REINVESTMENT_RATE_PCT) \div 100

TotalCost(d) == d.finance_metrics.total_cost

Value2(d) == d.finance_metrics.projected_value2

(* review_orders step 2: price and score one proposal *)
Score(d) ==
  LET unit_cost == OrElse(Get(d.cost_analysis, "purchasing_cost_per_unit", 0),
                          OrElse(Get(d.details, "unit_price", 0), 10))
      daily_demand == Get(d.details, "daily_avg_demand", 0)
      lead_time == Get(d.details, "lead_time_days", 7)
      current_stock == Get(d.details, "current_stock", 0)
      risk == IF daily_demand > 0 /\ current_stock < lead_time * daily_demand
              THEN STOCKOUT_RISK_HIGH_MULTIPLIER
              ELSE IF daily_demand > 0 /\ current_stock < 2 * lead_time * daily_demand
                   THEN STOCKOUT_RISK_MEDIUM_MULTIPLIER
                   ELSE 1
  IN ("finance_metrics" :>
        [total_cost |-> d.order_quantity * unit_cost,
         projected_value2 |-> unit_cost * daily_demand * 30 * risk]) @@ d

ScoreInPlace(ds) ==
  [i \in 1..Len(ds) |-> IF ds[i].reorder_required THEN Score(ds[i]) ELSE ds[i]]

SelCost(items, sel) == SumOver([i \in 1..Len(items) |-> TotalCost(items[i])], sel)

SelValue(items, sel) == SumOver([i \in 1..Len(items) |-> Value2(items[i])], sel)

Feasible(items, budget) ==
  {sel \in SUBSET (1..Len(items)) : SelCost(items, sel) <= budget}

(* the binary program handed to CBC: any selection of maximum value among  *)
(* those within the budget may come back                                   *)
OptimalSelections(items, budget) ==
  {sel \in Feasible(items, budget) :
     \A other \in Feasible(items, budget) :
        SelValue(items, other) <= SelValue(items, sel)}

Pick(items, sel) ==
  LET idx == SelectSeq([i \in 1..Len(items) |-> i], LAMBDA i : i \in sel)
  IN [k \in 1..Len(idx) |-> items[idx[k]]]

_solve_budget_allocation(items, sel) ==
  [approved |-> Pick(items, sel),
   rejected |-> Pick(items, (1..Len(items)) \ sel),
   total_spend |-> SelCost(items, sel)]

FinanceDialogue(dtype, d) == [agent |-> "Finance", type |-> dtype, sku |-> d.sku]

DialoguesFor(dtype, ds) == [i \in 1..Len(ds) |-> FinanceDialogue(dtype, ds[i])]

(* review_orders; solver_ok = FALSE is pulp / CBC raising at the solve.    *)
(* The outcome: the state as review_orders left it, and whether it raised. *)
review_orders(st, sel, solver_ok) ==
  LET dynamic_budget == Budget(st)
      reorders == Reorders(st.decisions)
      cleared == [st EXCEPT !.negotiation_proposals = <<>>,
                            !.finance_rejections = <<>>,
                            !.decisions = ScoreInPlace(@)]
      scored == Reorders(cleared.decisions)
      alloc == _solve_budget_allocation(scored, sel)
  IN IF reorders = <<>>
     THEN [st |-> st, raised |-> FALSE, feedback |-> "no_orders"]
     ELSE IF ~solver_ok
     THEN [st |-> cleared, raised |-> TRUE, feedback |-> ""]
     ELSE [st |-> [cleared EXCEPT
                     !.agent_dialogues = @ \o DialoguesFor("rejection", alloc.rejected),
                     !.finance_rejections = @ \o alloc.rejected,
                     !.decisions = alloc.approved,
                     !.finance_feedback = "reviewed",
                     !.budget = dynamic_budget,
                     !.budget_remaining = dynamic_budget - alloc.total_spend],
           raised |-> FALSE, feedback |-> "reviewed"]

ReviewCandidates(st) == Reorders(ScoreInPlace(st.decisions))

(* re_optimize_with_proposals step 2: one reduced candidate per proposal   *)
(* that matches a rejection                                                *)
FirstRejection(st, sku) ==
  LET hits == SelectSeq(st.finance_rejections, LAMBDA r : r.sku = sku)
  IN IF hits = <<>> THEN <<>> ELSE <<Head(hits)>>

Reduced(original, proposal) ==
  LET value2 == IF Value2(original) <= 2 THEN 3 * proposal.new_cost
                ELSE Value2(original)
  IN ("order_quantity" :> proposal.new_quantity) @@
     ("negotiated" :> TRUE) @@
     ("original_quantity" :> proposal.original_quantity) @@
     ("finance_metrics" :> [total_cost |-> proposal.new_cost,
                            projected_value2 |-> value2]) @@ original

ReoptCandidates(st) ==
  Concat([i \in 1..Len(st.negotiation_proposals) |->
            LET p == st.negotiation_proposals[i]
                r == FirstRejection(st, p.sku)
            IN IF r = <<>> THEN <<>> ELSE <<Reduced(r[1], p)>>])

re_optimize_with_proposals(st, sel, solver_ok) ==
  LET dynamic_budget == Budget(st)
      candidates == ReoptCandidates(st)
      alloc == _solve_budget_allocation(candidates, sel)
  IN IF candidates = <<>>
     THEN [st |-> st, raised |-> FALSE, feedback |-> "no_proposals"]
     ELSE IF ~solver_ok
     THEN [st |-> st, raised |-> TRUE, feedback |-> ""]
     ELSE [st |-> [st EXCEPT
                     !.agent_dialogues = @ \o DialoguesFor("accept_proposal", alloc.approved)
                                           \o DialoguesFor("reject_proposal", alloc.rejected),
                     !.decisions = alloc.approved,
                     !.finance_rejections = alloc.rejected,
                     !.finance_feedback = "re_optimized",
                     !.budget = dynamic_budget,
                     !.budget_remaining = dynamic_budget - alloc.total_spend],
           raised |-> FALSE, feedback |-> "re_optimized"]

(* the items the wrapper's pass hands to the solver *)
FinanceCandidates(st) ==
  IF st.negotiation_rounds = 0 THEN ReviewCandidates(st) ELSE ReoptCandidates(st)

FinancePass(st, sel, solver_ok) ==
  IF st.negotiation_rounds = 0 THEN review_orders(st, sel, solver_ok)
  ELSE re_optimize_with_proposals(st, sel, solver_ok)

(* mutant of NewDialogues: the slice starts one entry too late *)
NewDialogues_SkipFirst(st) ==
  SubSeq(st.agent_dialogues, st.streamed_dialogues_count + 2, Len(st.agent_dialogues))

(* mutant of NewDialogues: every dialogue is streamed again on each pass *)
NewDialogues_All(st) == st.agent_dialogues

(* the dialogues the wrapper streams after a pass: only the new ones *)
NewDialogues(st) ==
  SubSeq(st.agent_dialogues, st.streamed_dialogues_count + 1, Len(st.agent_dialogues))

StreamDialogues(stage, ds) ==
  [i \in 1..Len(ds) |-> Dialogue(stage, ds[i].type, ds[i].sku)]

(* ----------------------------- Negotiation ----------------------------- *)
calculate_reduction_factor(days10) ==
  IF days10 < 30 THEN 60
  ELSE IF days10 < 70 THEN 50
  ELSE IF days10 < 140 THEN 40
  ELSE 30

Proposal(rejected) ==
  LET original_qty == Get(rejected, "order_quantity", 0)
      unit_cost == TotalCost(rejected) \div Max(original_qty, 1)
      inventory_item == Get(rejected, "inventory_item", <<>>)
      current_stock == Get(inventory_item, "stock", 0)
      threshold == Get(inventory_item, "threshold", 10)
      daily_demand == Get(rejected.details, "daily_avg_demand", 1)
      days10 == IF daily_demand >= 1 THEN (current_stock * 10) \div daily_demand
                ELSE current_stock * 100
      reduction_factor == calculate_reduction_factor(days10)
      first_qty == (original_qty * reduction_factor) \div 100
      new_qty == IF first_qty < 10 THEN Max(10, (original_qty * 30) \div 100)
                 ELSE first_qty
  IN IF current_stock >= threshold THEN <<>>
     ELSE <<[sku |-> rejected.sku, original_quantity |-> original_qty,
             new_quantity |-> new_qty, new_cost |-> new_qty * unit_cost,
             reduction_factor |-> reduction_factor]>>

generate_counter_arguments(rejected_items) ==
  Concat([i \in 1..Len(rejected_items) |-> Proposal(rejected_items[i])])

(* mutant of should_negotiate: the edge that bypasses Negotiation leads to *)
(* Memory                                                                  *)
should_negotiate_SkipAction(st) ==
  IF st.negotiation_rounds > 0 THEN "memory"
  ELSE IF Len(st.finance_rejections) > 0
          /\ st.negotiation_rounds < st.max_negotiation_rounds
  THEN "negotiation" ELSE "memory"

(* mutant of should_negotiate: any rejection is negotiated, whatever the   *)
(* round                                                                   *)
should_negotiate_NoLimit(st) ==
  IF Len(st.finance_rejections) > 0 THEN "negotiation" ELSE "action"

(* mutant of should_negotiate: the already_negotiated test is missing *)
should_negotiate_NoOnceOnly(st) ==
  IF Len(st.finance_rejections) > 0
     /\ st.negotiation_rounds < st.max_negotiation_rounds
  THEN "negotiation" ELSE "action"

should_negotiate(st) ==
  LET has_rejections == Len(st.finance_rejections) > 0
      can_negotiate == st.negotiation_rounds < st.max_negotiation_rounds
      already_negotiated == st.negotiation_rounds > 0
  IN IF already_negotiated THEN "action"
     ELSE IF has_rejections /\ can_negotiate THEN "negotiation"
     ELSE "action"


(* ------------------------------- Action -------------------------------- *)
(* ActionNode.execute: the order is written unless the store raises, in    *)
(* which case the item comes back with executed = false                    *)
ExecutedActions(ds, exec_ok) ==
  LET todo == SelectSeq(ds, LAMBDA d : d.reorder_required /\ d.sku \in exec_ok)
  IN [i \in 1..Len(todo) |->
        [sku |-> todo[i].sku, quantity |-> todo[i].order_quantity,
         status |-> IF Get(todo[i], "requires_approval", FALSE)
                    THEN "Needs Approval" ELSE "Pending"]]

(* the rows of the orders table one run of the Action loop commits: the    *)
(* order of a decision is committed (action_node.py:139-141) before the    *)
(* refresh, the replenishment commit and the price lookup that follow; a   *)
(* store error in those (late) leaves the row and returns executed = false *)
WrittenOrders(ds, exec_ok, late) == ExecutedActions(ds, exec_ok \cup late)

ItemEvents(type, stage, items) ==
  [i \in 1..Len(items) |-> [type |-> type, stage |-> stage, dtype |-> "",
                            sku |-> items[i].sku]]

(* ------------------------- the graph's nodes --------------------------- *)
(* no recovery request has been served *)
NumThreads == 2

Threads == 1..NumThreads

Resting == [pc |-> "idle", op |-> "none", id |-> 0, queue |-> 0, snapshot |-> <<>>]

(* no job registered, no call under way *)
BusIdle ==
  /\ job_events = <<>>
  /\ deques = <<>>
  /\ threads = [t \in Threads |-> Resting]
  /\ calls = 0
  /\ appended = <<>>

(* no kernel function is being followed *)
NoKernel == [pc |-> "idle", fn |-> "none", input |-> <<>>, output |-> <<>>]

(* forecast_node is not being followed call by call *)
NotForecasting ==
  [pc |-> "idle", items_to_forecast |-> <<>>, attempt |-> 0,
   llm_calls_made |-> 0, invocations |-> 0, forecasts |-> <<>>]

NoRecovery == [op |-> "none", status |-> "none", checkpoint |-> <<>>]

Nodes == {"fetch_data", "forecast", "analyze_trends", "check_constraints",
          "optimize_cost", "finance", "negotiation", "action", "memory"}

(* no job has been submitted and no stream is open *)
StreamIdle ==
  /\ sessions = {}
  /\ job_error = ""
  /\ job_status = "none"
  /\ worker = "idle"
  /\ queue = <<>>
  /\ emitted = 0
  /\ restarts = 0
  /\ consumer = "disconnected"
  /\ frames = <<>>
  /\ sent_events = {}
  /\ last_status = "None"
  /\ polls = 0

Init ==
  /\ StreamIdle
  /\ store \in [SKUS -> InventoryRows]
  /\ sales_revenue = SalesRevenue(store)
  /\ cs = InitialState(0)
  /\ pc = "fetch_data"
  /\ steps = 0
  /\ ran = <<>>
  /\ events = <<>>
  /\ result = "none"
  /\ caught = {}
  /\ checkpoints = <<>>
  /\ _streams = <<>>
  /\ orders = <<>>
  /\ cycle_count = 1
  /\ recovery = NoRecovery
  /\ BusIdle
  /\ forecasting = NotForecasting /\ kernel = NoKernel

(* one superstep of app.invoke: node `name` runs, logs `evs`, leaves the   *)
(* state `st` and hands over to `next`                                     *)
StepWriting(name, st, evs, next, streams, written) ==
  /\ pc = name
  /\ steps < RecursionLimit
  /\ steps' = steps + 1
  /\ ran' = Append(ran, name)
  /\ cs' = st
  /\ events' = events \o evs
  /\ pc' = next
  /\ _streams' = streams
  /\ orders' = written
  /\ UNCHANGED <<store, sales_revenue, result, checkpoints, stream_vars, recovery_vars, bus_vars, forecasting, kernel>>

(* a superstep of a node that writes no order *)
StepEmitting(name, st, evs, next, streams) ==
  StepWriting(name, st, evs, next, streams, orders)

(* a superstep of a node that puts nothing on a StreamManager queue *)
Step(name, st, evs, next) == StepEmitting(name, st, evs, next, _streams)

(* an exception leaves the node: run_cycle logs it and raises again *)
Escape(name, evs) ==
  /\ pc = name
  /\ steps < RecursionLimit
  /\ steps' = steps + 1
  /\ ran' = Append(ran, name)
  /\ events' = events \o evs \o <<Ev("error", "ERROR")>>
  /\ pc' = "raised"
  /\ result' = "raised"
  /\ UNCHANGED <<_streams, orders, store, sales_revenue, cs, caught, checkpoints, stream_vars, recovery_vars, bus_vars, forecasting, kernel>>

fetch_node_wrapper ==
  /\ pc = "fetch_data"
  /\ \E db_ok \in BOOLEAN :
       /\ Step("fetch_data", fetch_data_node(cs, store, sales_revenue, db_ok),
               <<Ev("progress", "FETCH"), Ev("progress", "FETCH")>>, "forecast")
       /\ caught' = IF db_ok THEN caught ELSE caught \cup {"fetch_data"}


forecast_node_wrapper ==
  /\ pc = "forecast"
  /\ \E node_ok \in BOOLEAN :
       /\ StepEmitting("forecast", forecast_node(cs, store, node_ok),
                       <<Ev("progress", "FORECAST"), Ev("progress", "FORECAST")>>,
                       "analyze_trends",
                       EmitHighDemand(_streams, cycle_count,
                                      forecast_node(cs, store, node_ok).forecast_results))
       /\ caught' = IF node_ok THEN caught ELSE caught \cup {"forecast"}


analyze_trends_wrapper ==
  /\ pc = "analyze_trends"
  /\ \E fatal \in BOOLEAN :
       IF fatal THEN Escape("analyze_trends", <<Ev("progress", "DECISION")>>)
       ELSE /\ Step("analyze_trends", analyze_trends_node(cs, store),
                    <<Ev("progress", "DECISION")>>, "check_constraints")
            /\ UNCHANGED caught


check_constraints_wrapper ==
  /\ pc = "check_constraints"
  /\ \E fatal \in BOOLEAN :
       IF fatal THEN Escape("check_constraints", <<Ev("progress", "DECISION")>>)
       ELSE /\ Step("check_constraints", check_constraints_node(cs),
                    <<Ev("progress", "DECISION")>>, "optimize_cost")
            /\ UNCHANGED caught


optimize_cost_wrapper ==
  /\ pc = "optimize_cost"
  /\ \E fatal \in BOOLEAN :
       IF fatal THEN Escape("optimize_cost", <<Ev("progress", "DECISION")>>)
       ELSE \E done \in Reorderings(OptimizedDecisions(cs)) :
              /\ Step("optimize_cost", [cs EXCEPT !.decisions = done],
                      <<Ev("progress", "DECISION"), Ev("progress", "DECISION")>>
                        \o ItemEvents("decision_item", "DECISION", Reorders(done)),
                      "finance")
              /\ UNCHANGED caught


finance_node_wrapper ==
  /\ pc = "finance"
  /\ \E solver_ok \in BOOLEAN :
       \E sel \in OptimalSelections(FinanceCandidates(cs), Budget(cs)) :
         LET out == FinancePass(cs, sel, solver_ok)
             after == IF out.raised THEN out.st
                      ELSE [out.st EXCEPT !.streamed_dialogues_count =
                                             Len(out.st.agent_dialogues)]
             evs == IF out.raised THEN <<Ev("error", "FINANCE")>>
                    ELSE StreamDialogues("FINANCE", NewDialogues(out.st))
                           \o <<Ev("finance_feedback", "FINANCE")>>
         IN /\ Step("finance", after, <<Ev("progress", "FINANCE")>> \o evs,
                    should_negotiate(after))
            /\ caught' = IF out.raised THEN caught \cup {"finance"} ELSE caught


negotiation_node_wrapper ==
  /\ pc = "negotiation"
  /\ \E node_ok \in BOOLEAN :
       LET rejected_items == cs.finance_rejections
           proposals == generate_counter_arguments(rejected_items)
           after == IF rejected_items = <<>> \/ ~node_ok THEN cs
                    ELSE [cs EXCEPT !.negotiation_proposals = proposals,
                                    !.counter_arguments = proposals,
                                    !.negotiation_rounds = @ + 1]
           evs == IF rejected_items = <<>> THEN <<>>
                  ELSE IF ~node_ok THEN <<Ev("error", "NEGOTIATION")>>
                  ELSE [i \in 1..Len(proposals) |->
                          Dialogue("NEGOTIATION", "PROPOSE", proposals[i].sku)]
       IN /\ Step("negotiation", after, evs, "finance")
          /\ caught' = IF rejected_items # <<>> /\ ~node_ok
                       THEN caught \cup {"negotiation"} ELSE caught


action_node_wrapper ==
  /\ pc = "action"
  /\ \E fatal \in BOOLEAN :
       IF fatal THEN Escape("action", <<Ev("progress", "ACTION")>>)
       ELSE \E exec_ok \in SUBSET {cs.decisions[i].sku : i \in 1..Len(cs.decisions)} :
            \E late \in SUBSET ({cs.decisions[i].sku : i \in 1..Len(cs.decisions)} \ exec_ok) :
              LET executed_actions == ExecutedActions(cs.decisions, exec_ok) IN
              /\ StepWriting("action", [cs EXCEPT !.actions = executed_actions],
                      <<Ev("progress", "ACTION")>>
                        \o ItemEvents("action_item", "ACTION", executed_actions)
                        \o <<Ev("progress", "ACTION")>>,
                      "memory", _streams,
                      orders \o WrittenOrders(cs.decisions, exec_ok, late))
              /\ UNCHANGED caught


memory_node_wrapper ==
  /\ pc = "memory"
  /\ \E fatal \in BOOLEAN :
       IF fatal THEN Escape("memory", <<Ev("progress", "MEMORY")>>)
       ELSE /\ Step("memory", cs,
                    <<Ev("progress", "MEMORY"), Ev("progress", "MEMORY")>>, "END")
            /\ UNCHANGED caught


(* app.invoke gives up after RecursionLimit supersteps *)
GraphRecursionError ==
  /\ pc \in Nodes
  /\ steps = RecursionLimit
  /\ events' = Append(events, Ev("error", "ERROR"))
  /\ pc' = "raised"
  /\ result' = "raised"
  /\ UNCHANGED <<_streams, orders, store, sales_revenue, cs, steps, ran, caught, checkpoints,
                 stream_vars, recovery_vars, bus_vars, forecasting, kernel>>

(* run_cycle's normal return *)
run_cycle_return ==
  /\ pc = "END"
  /\ result' = "completed"
  /\ pc' = "returned"
  /\ UNCHANGED <<_streams, orders, store, sales_revenue, cs, steps, ran, events, caught,
                 checkpoints, stream_vars, recovery_vars, bus_vars, forecasting, kernel>>

(* AgentController.run_cycle after run_cycle returned: one checkpoint,     *)
(* unless the store raises (logged, nothing written)                       *)
StableFlag(status) == status = "success"

(* the row save_checkpoint inserts for the controller's Checkpoint *)
CheckpointRow(cycle_number, status) ==
  [cycle_number |-> cycle_number, is_stable |-> StableFlag(status),
   is_active |-> TRUE]

save_checkpoint ==
  \E db_ok \in BOOLEAN :
    /\ pc = "returned"
    /\ checkpoints' = IF db_ok
                      THEN Append(checkpoints,
                                  CheckpointRow(cycle_count, result))
                      ELSE checkpoints
    /\ pc' = "idle"
    /\ UNCHANGED <<_streams, orders, store, sales_revenue, cs, steps, ran, events, result, caught,
                   stream_vars, recovery_vars, bus_vars, forecasting, kernel>>

Next ==
  \/ fetch_node_wrapper
  \/ forecast_node_wrapper
  \/ analyze_trends_wrapper
  \/ check_constraints_wrapper
  \/ optimize_cost_wrapper
  \/ finance_node_wrapper
  \/ negotiation_node_wrapper
  \/ action_node_wrapper
  \/ memory_node_wrapper
  \/ GraphRecursionError
  \/ run_cycle_return
  \/ save_checkpoint

Spec == Init /\ [][Next]_vars

(* ================== the job lifecycle and its stream =================== *)
(* One job, one server process at a time, one SSE subscription at a time.  *)
MaxEvents == 3

NumKeys == 2

QueueCap == 2

PollLimit == 3

MaxRestarts == 1

(* an event's dedupe key is its (timestamp, stage, message); two log_event *)
(* calls in the same clock tick with the same text share one               *)
Keys == 1..NumKeys

(* mutant of log_event: appendleft instead of append *)
log_event_appendleft(q, e) ==
  IF Len(q) >= QueueCap THEN <<e>> \o SubSeq(q, 1, Len(q) - 1) ELSE <<e>> \o q

(* deque(maxlen = QueueCap).append: at capacity the oldest entry goes *)
log_event(q, e) == IF Len(q) >= QueueCap THEN Append(Tail(q), e) ELSE Append(q, e)

(* SessionLocal(): one more open session *)
SessionLocal(open, name) == open \cup {name}

(* Session.close() *)
close(open, name) == open \ {name}

Frame(type, id, status) == [type |-> type, id |-> id, status |-> status]

(* the generator's pass over queue_snapshot: every event whose key is not  *)
(* in sent_events is yielded and its key remembered                        *)
RECURSIVE SendNew(_, _, _)
SendNew(queue_snapshot, sent, out) ==
  IF queue_snapshot = <<>> THEN [sent |-> sent, out |-> out]
  ELSE LET event == Head(queue_snapshot) IN
       IF event.key \in sent THEN SendNew(Tail(queue_snapshot), sent, out)
       ELSE SendNew(Tail(queue_snapshot), sent \cup {event.key},
                    Append(out, Frame("event", event.id, "")))

(* mutant of Breaks: the failed branch forgets its break *)
Breaks_CompletedOnly(current_status) == current_status = "completed"

(* the statuses on which the generator breaks out of its loop *)
Breaks(current_status) == current_status \in {"completed", "failed"}

(* mutant of Interrupted: recovery finds no job to reset *)
Interrupted_None(status) == FALSE

(* mutant of Interrupted: recovery resets every job it finds *)
Interrupted_All(status) == status # "none"

(* the jobs startup recovery resets *)
Interrupted(status) == status = "running"

(* the cycle engine stands still while the job model runs *)
CycleIdle ==
  /\ store = [s \in SKUS |-> Row(100, 10, 10, TRUE, 2, 80, FALSE, FALSE)]
  /\ sales_revenue = SalesRevenue(store)
  /\ cs = InitialState(0)
  /\ pc = "idle"
  /\ steps = 0
  /\ ran = <<>>
  /\ events = <<>>
  /\ result = "none"
  /\ caught = {}
  /\ checkpoints = <<>>
  /\ _streams = <<>>
  /\ orders = <<>>

RecoveryIdle == cycle_count = 0 /\ recovery = NoRecovery

InitStream ==
  StreamIdle /\ CycleIdle /\ RecoveryIdle /\ BusIdle /\ forecasting = NotForecasting /\ kernel = NoKernel

(* POST /agent/run_once: the row is committed as queued, the task is added *)
run_once_async ==
  /\ job_status = "none"
  /\ job_status' = "queued"
  /\ job_error' = ""
  /\ worker' = "scheduled"
  /\ UNCHANGED <<sessions, queue, emitted, restarts, consumer, frames, sent_events,
                 last_status, polls, cycle_vars, recovery_vars, bus_vars, forecasting, kernel>>

(* _execute_agent_cycle, step 1: mark the job running; a store error here  *)
(* goes to the except branch                                               *)
execute_start ==
  \E db_ok \in BOOLEAN :
    /\ worker = "scheduled"
    /\ job_status' = IF db_ok THEN "running" ELSE job_status
    /\ UNCHANGED job_error
    /\ worker' = IF db_ok THEN "cycle" ELSE "failing"
    /\ UNCHANGED <<sessions, queue, emitted, restarts, consumer, frames, sent_events,
                   last_status, polls, cycle_vars, recovery_vars, bus_vars, forecasting, kernel>>

(* the INIT progress event and every event run_cycle's stages log *)
log_progress ==
  \E key \in Keys :
    /\ worker = "cycle"
    /\ emitted < MaxEvents
    /\ emitted' = emitted + 1
    /\ queue' = log_event(queue, [id |-> emitted + 1, key |-> key])
    /\ UNCHANGED <<job_status, job_error, sessions, worker, restarts, consumer, frames, sent_events,
                   last_status, polls, cycle_vars, recovery_vars, bus_vars, forecasting, kernel>>

(* step 3: run_cycle returned and the job is committed as completed; or    *)
(* run_cycle raised, or the store did                                      *)
execute_complete ==
  \E ok \in BOOLEAN :
    /\ worker = "cycle"
    /\ job_status' = IF ok THEN "completed" ELSE job_status
    /\ UNCHANGED job_error
    /\ worker' = IF ok THEN "completing" ELSE "failing"
    /\ UNCHANGED <<sessions, queue, emitted, restarts, consumer, frames, sent_events,
                   last_status, polls, cycle_vars, recovery_vars, bus_vars, forecasting, kernel>>

(* the COMPLETE progress event, logged after the commit *)
log_complete ==
  \E key \in Keys :
    /\ worker = "completing"
    /\ emitted' = emitted + 1
    /\ queue' = log_event(queue, [id |-> emitted + 1, key |-> key])
    /\ worker' = "done"
    /\ UNCHANGED <<job_status, job_error, sessions, restarts, consumer, frames, sent_events,
                   last_status, polls, cycle_vars, recovery_vars, bus_vars, forecasting, kernel>>

(* the except branch: first the ERROR progress event ... *)
log_failure ==
  \E key \in Keys :
    /\ worker = "failing"
    /\ emitted' = emitted + 1
    /\ queue' = log_event(queue, [id |-> emitted + 1, key |-> key])
    /\ worker' = "marking"
    /\ UNCHANGED <<job_status, job_error, sessions, restarts, consumer, frames, sent_events,
                   last_status, polls, cycle_vars, recovery_vars, bus_vars, forecasting, kernel>>

(* ... then the job is committed as failed, unless the store is broken *)
mark_failed ==
  \E db_ok \in BOOLEAN :
    /\ worker = "marking"
    /\ job_status' = IF db_ok THEN "failed" ELSE job_status
    /\ job_error' = IF db_ok THEN "str(e)" ELSE job_error
    /\ worker' = "done"
    /\ UNCHANGED <<sessions, queue, emitted, restarts, consumer, frames, sent_events,
                   last_status, polls, cycle_vars, recovery_vars, bus_vars, forecasting, kernel>>

(* the server process dies and starts again: the background task, the     *)
(* in-memory queues and the open subscription are gone; startup recovery   *)
(* marks the interrupted job failed                                        *)
lifespan ==
  /\ restarts < MaxRestarts
  /\ restarts' = restarts + 1
  /\ worker' = IF worker \in {"idle", "done"} THEN worker ELSE "dead"
  /\ job_status' = IF Interrupted(job_status) THEN "failed" ELSE job_status
  /\ job_error' = IF Interrupted(job_status)
                  THEN "Interrupted by server restart" ELSE job_error
  /\ queue' = <<>>
  /\ sessions' = {}
  /\ consumer' = "disconnected"
  /\ frames' = <<>>
  /\ sent_events' = {}
  /\ last_status' = "None"
  /\ polls' = 0
  /\ UNCHANGED <<emitted, cycle_vars, recovery_vars, bus_vars, forecasting, kernel>>

(* GET /agent/stream/{id}: the request resolves Depends(get_db), which     *)
(* opens the session db; the generator starts and yields the connection    *)
(* frame.  Whether get_db's finally runs before the body is streamed or    *)
(* only after the response has ended depends on the framework version.     *)
stream_job_progress ==
  /\ consumer = "disconnected"
  /\ consumer' = "events"
  /\ \E exits_early \in BOOLEAN :
       sessions' = IF exits_early THEN close(SessionLocal(sessions, "db"), "db")
                   ELSE SessionLocal(sessions, "db")
  /\ frames' = <<Frame("connection", 0, "")>>
  /\ sent_events' = {}
  /\ last_status' = "None"
  /\ polls' = 0
  /\ UNCHANGED <<job_status, job_error, worker, queue, emitted, restarts, cycle_vars, recovery_vars, bus_vars, forecasting, kernel>>

(* one iteration, part 1: snapshot the queue and yield what is new *)
poll_events ==
  LET pass == SendNew(queue, sent_events, <<>>) IN
  /\ consumer = "events"
  /\ polls < PollLimit
  /\ frames' = frames \o pass.out
  /\ sent_events' = pass.sent
  /\ consumer' = "status"
  /\ UNCHANGED <<job_status, job_error, sessions, worker, queue, emitted, restarts, last_status,
                 polls, cycle_vars, recovery_vars, bus_vars, forecasting, kernel>>

(* one iteration, part 2: read the job's status in a short-lived session;  *)
(* a store error is logged and the loop goes on                            *)
poll_status ==
  \E db_ok \in BOOLEAN :
    /\ consumer = "status"
    /\ sessions' = close(SessionLocal(sessions, "scope_db"), "scope_db")
    /\ IF ~db_ok
       THEN /\ consumer' = "events"
            /\ polls' = polls + 1
            /\ UNCHANGED <<frames, last_status>>
       ELSE IF job_status = "none"
       THEN /\ frames' = Append(frames, Frame("error", 0, ""))
            /\ consumer' = "closing"
            /\ UNCHANGED <<last_status, polls>>
       ELSE IF job_status = last_status
       THEN /\ consumer' = "events"
            /\ polls' = polls + 1
            /\ UNCHANGED <<frames, last_status>>
       ELSE IF Breaks(job_status)
       THEN /\ frames' = Append(frames, Frame("status", 0, job_status))
            /\ consumer' = "closing"
            /\ UNCHANGED <<last_status, polls>>
       ELSE /\ frames' = Append(frames, Frame("status", 0, job_status))
            /\ last_status' = job_status
            /\ consumer' = "events"
            /\ polls' = polls + 1
    /\ UNCHANGED <<job_status, job_error, worker, queue, emitted, restarts, sent_events,
                   cycle_vars, recovery_vars, bus_vars, forecasting, kernel>>

(* after a break, or after PollLimit iterations, the close frame ends the  *)
(* stream                                                                  *)
close_stream ==
  /\ \/ consumer = "closing"
     \/ consumer = "events" /\ polls = PollLimit
  /\ frames' = Append(frames, Frame("close", 0, ""))
  /\ consumer' = "closed"
  /\ sessions' = close(sessions, "db")
  /\ UNCHANGED <<job_status, job_error, worker, queue, emitted, restarts, sent_events,
                 last_status, polls, cycle_vars, recovery_vars, bus_vars, forecasting, kernel>>

NextStream ==
  \/ run_once_async
  \/ execute_start
  \/ log_progress
  \/ execute_complete
  \/ log_complete
  \/ log_failure
  \/ mark_failed
  \/ lifespan
  \/ stream_job_progress
  \/ poll_events
  \/ poll_status
  \/ close_stream

SpecStream == InitStream /\ [][NextStream]_vars

(* the thread pool runs a scheduled task and every step of a running one;  *)
(* nothing makes a client subscribe or the server restart                  *)
SpecStreamLive ==
  /\ SpecStream
  /\ WF_vars(execute_start)
  /\ WF_vars(execute_complete)
  /\ WF_vars(log_complete)
  /\ WF_vars(log_failure)
  /\ WF_vars(mark_failed)

(* ============================== recovery =============================== *)
(* The controller runs cycle after cycle, each leaving at most one         *)
(* checkpoint row, while recovery requests arrive at any time.  Rows are   *)
(* kept in insertion order, so order_by(timestamp.desc()) is the reverse   *)
(* of the sequence; a checkpoint's id is its position.                     *)
MaxCycles == 4

Reverse(s) == [i \in 1..Len(s) |-> s[Len(s) + 1 - i]]

WithIds(rows) == [i \in 1..Len(rows) |-> [checkpoint_id |-> i] @@ rows[i]]

(* <<>> for None, else a one-element sequence holding the checkpoint *)
get_latest_stable_checkpoint(rows) ==
  LET hits == SelectSeq(Reverse(WithIds(rows)),
                        LAMBDA r : r.is_stable /\ r.is_active)
  IN IF hits = <<>> THEN <<>> ELSE <<Head(hits)>>

get_checkpoint_history(rows, limit) ==
  LET hits == SelectSeq(Reverse(WithIds(rows)), LAMBDA r : r.is_active)
  IN SubSeq(hits, 1, Min(limit, Len(hits)))

HistoryLimit == 100

pipeline_vars == <<store, sales_revenue, cs, pc, steps, ran, events, result,
                   caught, _streams, orders>>

InitRecovery ==
  StreamIdle /\ CycleIdle /\ RecoveryIdle /\ BusIdle /\ forecasting = NotForecasting /\ kernel = NoKernel

(* AgentController.run_cycle as a whole: the pipeline either returns its   *)
(* result (status "completed") or raises; only in the first case is a      *)
(* checkpoint saved, unless the store raises                               *)
controller_run_cycle ==
  \E status \in {"completed", "raised"}, db_ok \in BOOLEAN :
    /\ cycle_count < MaxCycles
    /\ cycle_count' = cycle_count + 1
    /\ checkpoints' = IF status = "completed" /\ db_ok
                      THEN Append(checkpoints,
                                  CheckpointRow(cycle_count', status))
                      ELSE checkpoints
    /\ UNCHANGED <<pipeline_vars, recovery, stream_vars, bus_vars, forecasting, kernel>>

initiate_recovery ==
  /\ LET checkpoint == get_latest_stable_checkpoint(checkpoints)
     IN recovery' = IF checkpoint = <<>>
                    THEN [op |-> "initiate", status |-> "no_recovery",
                          checkpoint |-> <<>>]
                    ELSE [op |-> "initiate", status |-> "ready_for_recovery",
                          checkpoint |-> checkpoint]
  /\ UNCHANGED <<cycle_vars, cycle_count, stream_vars, bus_vars, forecasting, kernel>>

resume_from_checkpoint ==
  \E checkpoint_id \in 1..(Len(checkpoints) + 1) :
    /\ LET history == get_checkpoint_history(checkpoints, HistoryLimit)
           found == SelectSeq(history,
                              LAMBDA c : c.checkpoint_id = checkpoint_id)
       IN recovery' = IF found = <<>>
                      THEN [op |-> "resume", status |-> "error",
                            checkpoint |-> <<>>]
                      ELSE [op |-> "resume", status |-> "resumed",
                            checkpoint |-> <<Head(found)>>]
    /\ UNCHANGED <<cycle_vars, cycle_count, stream_vars, bus_vars, forecasting, kernel>>

NextRecovery ==
  \/ controller_run_cycle
  \/ initiate_recovery
  \/ resume_from_checkpoint

SpecRecovery == InitRecovery /\ [][NextRecovery]_vars


(* ============================ the event bus ============================ *)
(* JobStreamManager for one job id, used by several threads at once: the   *)
(* background task logs events from the thread pool while the SSE          *)
(* generator calls get_queue on the event loop.  A thread can be switched  *)
(* out between any two statements; one statement (a dict lookup, a dict    *)
(* store, deque.append, list(deque)) is atomic.  The class holds no lock.  *)
MaxCalls == 3

(* a thread enters log_event (which begins with get_queue) or get_queue *)
enter_call ==
  \E t \in Threads, op \in {"log_event", "get_queue"} :
    /\ threads[t].pc = "idle"
    /\ calls < MaxCalls
    /\ calls' = calls + 1
    /\ threads' = [threads EXCEPT ![t] =
                     [Resting EXCEPT !.pc = "test", !.op = op, !.id = calls + 1]]
    /\ UNCHANGED <<job_events, deques, appended, cycle_vars, stream_vars,
                   recovery_vars, forecasting, kernel>>

(* get_queue: if job_id not in self._job_events *)
get_queue_test ==
  \E t \in Threads :
    /\ threads[t].pc = "test"
    /\ threads' = [threads EXCEPT ![t].pc =
                     IF job_events = <<>> THEN "store" ELSE "return"]
    /\ UNCHANGED <<job_events, deques, calls, appended, cycle_vars,
                   stream_vars, recovery_vars, forecasting, kernel>>

(* get_queue: self._job_events[job_id] = deque(maxlen=...) *)
get_queue_store ==
  \E t \in Threads :
    /\ threads[t].pc = "store"
    /\ deques' = Append(deques, <<>>)
    /\ job_events' = <<Len(deques) + 1>>
    /\ threads' = [threads EXCEPT ![t].pc = "return"]
    /\ UNCHANGED <<calls, appended, cycle_vars, stream_vars, recovery_vars, forecasting, kernel>>

(* get_queue: return self._job_events[job_id] *)
get_queue_return ==
  \E t \in Threads :
    /\ threads[t].pc = "return"
    /\ threads' = [threads EXCEPT ![t].queue = job_events[1],
                                  ![t].pc = IF threads[t].op = "log_event"
                                            THEN "append" ELSE "list"]
    /\ UNCHANGED <<job_events, deques, calls, appended, cycle_vars,
                   stream_vars, recovery_vars, forecasting, kernel>>

(* log_event: queue.append(event) *)
queue_append ==
  \E t \in Threads :
    /\ threads[t].pc = "append"
    /\ deques' = [deques EXCEPT ![threads[t].queue] =
                    log_event(@, [id |-> threads[t].id, key |-> 1])]
    /\ appended' = Append(appended, threads[t].id)
    /\ threads' = [threads EXCEPT ![t].pc = "idle"]
    /\ UNCHANGED <<job_events, calls, cycle_vars, stream_vars, recovery_vars, forecasting, kernel>>

(* progress_generator: queue_snapshot = list(queue) *)
queue_snapshot ==
  \E t \in Threads :
    /\ threads[t].pc = "list"
    /\ threads' = [threads EXCEPT ![t].snapshot = deques[threads[t].queue],
                                  ![t].pc = "idle"]
    /\ UNCHANGED <<job_events, deques, calls, appended, cycle_vars,
                   stream_vars, recovery_vars, forecasting, kernel>>

NextBus ==
  \/ enter_call
  \/ get_queue_test
  \/ get_queue_store
  \/ get_queue_return
  \/ queue_append
  \/ queue_snapshot

InitBus ==
  StreamIdle /\ CycleIdle /\ RecoveryIdle /\ BusIdle /\ forecasting = NotForecasting /\ kernel = NoKernel

SpecBus == InitBus /\ [][NextBus]_vars


(* ===================== the forecast node, call by call ================= *)
(* forecast_node walking items_to_forecast, one call of the external       *)
(* estimator (query_groq) at a time.  An item either has a statistical     *)
(* forecast that is good enough ("stable"), has one of low confidence      *)
(* ("uncertain"), or has none ("nodata"); an item costing more than 100    *)
(* is expensive.                                                           *)
NumItems == 3

MAX_LLM_CALLS == 2

Attempts == 2

ItemKinds == [kind : {"stable", "uncertain", "nodata"}, expensive : BOOLEAN]

needs_llm(item) == item.kind \in {"uncertain", "nodata"}

priority(item) ==
  (IF item.kind = "nodata" THEN 3 ELSE IF item.kind = "uncertain" THEN 2 ELSE 0)
  + (IF item.expensive THEN 1 ELSE 0)

(* items.sort(key = priority, reverse = True): stable, highest first *)
SortByPriority(items) ==
  LET Level(p) == SelectSeq(items, LAMBDA x : priority(x) = p)
  IN Level(4) \o Level(3) \o Level(2) \o Level(1) \o Level(0)

InitForecast ==
  /\ StreamIdle /\ CycleIdle /\ RecoveryIdle /\ BusIdle /\ kernel = NoKernel
  /\ \E items \in [1..NumItems -> ItemKinds] :
       forecasting = [NotForecasting EXCEPT
                        !.pc = "next",
                        !.items_to_forecast = SortByPriority(items)]

Finish(f, how) ==
  [f EXCEPT !.forecasts = Append(@, [item |-> Head(f.items_to_forecast),
                                     how |-> how]),
            !.items_to_forecast = Tail(@),
            !.attempt = 0,
            !.pc = "next"]

(* process_sku_forecast up to the first call of the estimator *)
process_sku_forecast ==
  /\ forecasting.pc = "next"
  /\ forecasting.items_to_forecast # <<>>
  /\ LET item == Head(forecasting.items_to_forecast) IN
     forecasting' =
        IF ~needs_llm(item) THEN Finish(forecasting, "statistical")
        ELSE IF forecasting.llm_calls_made >= MAX_LLM_CALLS
        THEN Finish(forecasting, "limit")
        ELSE [forecasting EXCEPT !.pc = "llm", !.attempt = 0]
  /\ UNCHANGED <<cycle_vars, stream_vars, recovery_vars, bus_vars, kernel>>

(* one pass of the retry loop: query_groq answers nothing (None), a usable *)
(* forecast, text that does not parse to a dict, or raises                 *)
query_groq ==
  \E raw \in {"None", "parsed", "invalid", "raised"} :
    /\ forecasting.pc = "llm"
    /\ LET called == [forecasting EXCEPT !.invocations = @ + 1] IN
       forecasting' =
          IF raw = "None" THEN Finish(called, "fallback")
          ELSE IF raw = "parsed"
          THEN Finish([called EXCEPT !.llm_calls_made = @ + 1], "llm")
          ELSE IF forecasting.attempt + 1 >= Attempts
          THEN Finish(called, "fallback")
          ELSE [called EXCEPT !.attempt = @ + 1]
    /\ UNCHANGED <<cycle_vars, stream_vars, recovery_vars, bus_vars, kernel>>

NextForecast ==
  \/ process_sku_forecast
  \/ query_groq

SpecForecast == InitForecast /\ [][NextForecast]_vars

(* ========================= Fetch, run repeatedly ======================= *)
(* fetch_data_node applied again and again to the same CycleState, with    *)
(* at most one change of the store in between                              *)
MaxFetches == 3

InitFetch ==
  /\ StreamIdle /\ RecoveryIdle /\ BusIdle /\ forecasting = NotForecasting /\ kernel = NoKernel
  /\ store \in [SKUS -> InventoryRows]
  /\ sales_revenue = SalesRevenue(store)
  /\ cs = InitialState(0)
  /\ pc = "fetch_data"
  /\ steps = 0
  /\ ran = <<>>
  /\ events = <<>>
  /\ result = "none"
  /\ caught = {}
  /\ checkpoints = <<>>
  /\ _streams = <<>>
  /\ orders = <<>>

(* one more run of Fetch on the state the last run left *)
fetch_again ==
  \E db_ok \in BOOLEAN :
    /\ steps < MaxFetches
    /\ steps' = steps + 1
    /\ cs' = fetch_data_node(cs, store, sales_revenue, db_ok)
    /\ ran' = Append(ran, IF db_ok THEN "fetch_data" ELSE "error")
    /\ UNCHANGED <<_streams, orders, store, sales_revenue, pc, events, result, caught,
                   checkpoints, stream_vars, recovery_vars, bus_vars, forecasting, kernel>>

(* the store moves on to another snapshot: one inventory row changes *)
store_update ==
  \E s \in SKUS, row \in InventoryRows :
    /\ row # store[s]
    /\ \A i \in 1..Len(ran) : ran[i] # "update"
    /\ store' = [store EXCEPT ![s] = row]
    /\ sales_revenue' = SalesRevenue(store')
    /\ ran' = Append(ran, "update")
    /\ UNCHANGED <<_streams, orders, cs, pc, steps, events, result, caught, checkpoints,
                   stream_vars, recovery_vars, bus_vars, forecasting, kernel>>

NextFetch ==
  \/ fetch_again
  \/ store_update

SpecFetch == InitFetch /\ [][NextFetch]_vars

(* ================= the decision kernel, one call at a time ============= *)
(* A kernel function applied to one input drawn from a bounded set.        *)
MaxDemandTenths == 15

MaxLeadTime == 7

Volatilities == {0, 30, 100, 250}

MetricsInputs ==
  [daily_avg_tenths : 0..MaxDemandTenths, lead_time_days : 1..MaxLeadTime,
   demand_volatility_pct : Volatilities]

MaxOrderQty == 20

UnitCosts == {1, 3}

(* stock and threshold of a rejected item that carries its inventory_item: *)
(* at the default daily demand of 1 the stocks give days_until_stockout    *)
(* 0, 5, 9 and 20, one for each reduction factor                           *)
Stocks == {0, 5, 9, 20}

Thresholds == {10, 50}

(* a decision Finance has rejected, as review_orders leaves it *)
Rejected(order_quantity, unit_cost) ==
  [sku |-> 1, reorder_required |-> TRUE, order_quantity |-> order_quantity,
   details |-> [lead_time_days |-> 7],
   cost_analysis |-> [purchasing_cost_per_unit |-> unit_cost],
   finance_metrics |-> [total_cost |-> order_quantity * unit_cost,
                        projected_value2 |-> 0]]

(* the same with an inventory_item for Negotiation to read *)
RejectedWithItem(order_quantity, unit_cost, stock, threshold) ==
  [sku |-> 1, reorder_required |-> TRUE, order_quantity |-> order_quantity,
   details |-> [lead_time_days |-> 7],
   cost_analysis |-> [purchasing_cost_per_unit |-> unit_cost],
   finance_metrics |-> [total_cost |-> order_quantity * unit_cost,
                        projected_value2 |-> 0],
   inventory_item |-> [stock |-> stock, threshold |-> threshold]]

InitKernel ==
  /\ StreamIdle /\ CycleIdle /\ RecoveryIdle /\ BusIdle
  /\ forecasting = NotForecasting
  /\ \/ \E m \in MetricsInputs :
          kernel = [NoKernel EXCEPT !.pc = "called",
                                    !.fn = "calculate_dynamic_reorder_point",
                                    !.input = m]
     \/ \E original_qty \in 1..MaxOrderQty, unit_cost \in UnitCosts :
          \/ kernel = [NoKernel EXCEPT !.pc = "called",
                                       !.fn = "generate_counter_arguments",
                                       !.input = Rejected(original_qty, unit_cost)]
          \/ \E stock \in Stocks, threshold \in Thresholds :
               kernel = [NoKernel EXCEPT
                           !.pc = "called",
                           !.fn = "generate_counter_arguments",
                           !.input = RejectedWithItem(original_qty, unit_cost,
                                                      stock, threshold)]

reorder_point_call ==
  /\ kernel.pc = "called"
  /\ kernel.fn = "calculate_dynamic_reorder_point"
  /\ kernel' = [kernel EXCEPT
                  !.pc = "returned",
                  !.output = DynamicReorderPoint(kernel.input.daily_avg_tenths,
                                                 kernel.input.lead_time_days,
                                                 kernel.input.demand_volatility_pct)]
  /\ UNCHANGED <<cycle_vars, stream_vars, recovery_vars, bus_vars, forecasting>>

(* NegotiationNode.generate_counter_arguments over one rejected item *)
counter_arguments_call ==
  /\ kernel.pc = "called"
  /\ kernel.fn = "generate_counter_arguments"
  /\ kernel' = [kernel EXCEPT
                  !.pc = "returned",
                  !.output = generate_counter_arguments(<<kernel.input>>)]
  /\ UNCHANGED <<cycle_vars, stream_vars, recovery_vars, bus_vars, forecasting>>

NextKernel ==
  \/ reorder_point_call
  \/ counter_arguments_call

SpecKernel == InitKernel /\ [][NextKernel]_vars

(* ======================= claims about the cycle ======================== *)
LastRan == IF ran = <<>> THEN "" ELSE ran[Len(ran)]

Count(name) == Cardinality({i \in 1..Len(ran) : ran[i] = name})

CycleOver == pc \in {"END", "returned", "idle"}

SkusOf(ds) == {ds[i].sku : i \in 1..Len(ds)}

ApprovedCost(st) ==
  SumOver([i \in 1..Len(st.decisions) |->
             Get(Get(st.decisions[i], "finance_metrics", <<>>), "total_cost", 0)],
          1..Len(st.decisions))

(* C1, as claimed: at the end of every Finance pass the summed total_cost  *)
(* of the decisions left in state.decisions is at most the cycle's budget. *)
C1_AsClaimed == LastRan = "finance" => ApprovedCost(cs) <= Budget(cs)

(* C1 where it does hold: a pass whose solve completed leaves a set within *)
(* the budget.                                                             *)
C1_CompletedPass ==
  (LastRan = "finance" /\ "finance" \notin caught) => ApprovedCost(cs) <= Budget(cs)

(* C2, as claimed: Finance runs at most twice and Negotiation at most once *)
(* in a cycle, and the loop never runs the graph into its recursion limit. *)
C2_AsClaimed ==
  /\ Count("finance") <= 2
  /\ Count("negotiation") <= 1
  /\ ~(pc \in Nodes /\ steps = RecursionLimit)

(* C2 where it does hold: as long as Negotiation's handler catches nothing *)
C2_NoCaughtNegotiation ==
  "negotiation" \notin caught => (Count("finance") <= 2 /\ Count("negotiation") <= 1)

(* C3: after a Finance pass control goes to Negotiation exactly when there *)
(* are rejections, negotiation_rounds < max_negotiation_rounds and         *)
(* negotiation_rounds = 0; otherwise, and always after the re-optimization *)
(* pass, it goes to Action.                                                *)
C3_Routing ==
  [][(pc = "finance" /\ ran' # ran) =>
       /\ pc' \in {"negotiation", "action"}
       /\ (pc' = "negotiation") <=>
            (/\ cs'.finance_rejections # <<>>
             /\ cs'.negotiation_rounds < cs'.max_negotiation_rounds
             /\ cs'.negotiation_rounds = 0)
       /\ (cs.negotiation_rounds > 0 => pc' = "action")]_vars

(* the re-optimization pass left rejections and control still went on to   *)
(* Action                                                                  *)
C3_Witness ==
  /\ pc = "action"
  /\ cs.negotiation_rounds = 1
  /\ cs.finance_rejections # <<>>
  /\ Count("finance") = 2

Held(st, s) ==
  \E i \in 1..Len(st.analyzed_skus) :
     /\ st.analyzed_skus[i].sku = s
     /\ ConstraintOutcome(st.analyzed_skus[i]) \in {"hold", "inactive"}

Accounted(st, s) ==
  \/ s \in SkusOf(st.decisions) \cup SkusOf(st.finance_rejections)
  \/ s \in Range(st.failed_skus)
  \/ Held(st, s)

(* C4, as claimed: at the end of a cycle every SKU of inventory_data is in *)
(* decisions or finance_rejections, or in failed_skus, or was held by the  *)
(* constraint check.  Stated for the cycles in which no stage caught an    *)
(* error, where the claim already fails.                                   *)
C4_AsClaimed ==
  (CycleOver /\ caught = {}) => \A s \in DOMAIN cs.inventory_data : Accounted(cs, s)

ThrewSomewhere == caught # {} \/ result = "raised"

(* C5, as claimed: once a stage has thrown, the error is in errors and no  *)
(* later stage is run; a cycle that reports completed had no stage throw.  *)
C5_AsClaimed ==
  /\ ThrewSomewhere => (cs.errors # <<>> /\ pc \notin Nodes)
  /\ result = "completed" => ~ThrewSomewhere

(* 1: a dialogue review_orders produced (Round 0), 2: a Negotiation        *)
(* dialogue, 3: a dialogue re_optimize_with_proposals produced, 0: no      *)
(* dialogue                                                                *)
DialogueRank(e) ==
  IF e.type # "agent_dialogue" THEN 0
  ELSE IF e.stage = "NEGOTIATION" THEN 2
  ELSE IF e.dtype \in {"accept_proposal", "reject_proposal"} THEN 3
  ELSE 1

(* C6: in the cycle's event stream every Round-0 Finance dialogue precedes *)
(* every Negotiation dialogue, and every Negotiation dialogue precedes     *)
(* every dialogue of the Finance re-optimization.                          *)
C6_DialogueOrder ==
  LET dialogues == SelectSeq(events, LAMBDA e : DialogueRank(e) > 0)
  IN \A i \in 1..(Len(dialogues) - 1) :
        DialogueRank(dialogues[i]) <= DialogueRank(dialogues[i + 1])

(* all three kinds of dialogue have reached the stream *)
C6_Witness ==
  {1, 2, 3} \subseteq {DialogueRank(events[i]) : i \in 1..Len(events)}

(* C10, as claimed: the checkpoint written after a cycle that finished     *)
(* without a stage failure is the only one and is marked stable; a cycle   *)
(* that fails leaves no stable checkpoint.                                 *)
C10_AsClaimed ==
  /\ (pc = "idle" /\ result = "completed" /\ caught = {} /\ checkpoints # <<>>)
        => (Len(checkpoints) = 1 /\ checkpoints[1].is_stable)
  /\ result = "raised" => \A i \in 1..Len(checkpoints) : ~checkpoints[i].is_stable

(* C11, as claimed: whatever checkpoint a recovery request selects, be it  *)
(* through initiate_recovery or resume_from_checkpoint, is stable and      *)
(* active.                                                                  *)
C11_AsClaimed ==
  \A i \in 1..Len(recovery.checkpoint) :
     recovery.checkpoint[i].is_stable /\ recovery.checkpoint[i].is_active

(* C11 where it does hold: initiate_recovery alone never selects an        *)
(* unstable checkpoint                                                     *)
C11_InitiateOnlyStable ==
  recovery.op = "initiate" =>
     \A i \in 1..Len(recovery.checkpoint) :
        recovery.checkpoint[i].is_stable /\ recovery.checkpoint[i].is_active

(* the decision Optimize emitted for SKU s orders at least qty units *)
OrdersAtLeast(ds, s, qty) ==
  \E i \in 1..Len(ds) :
     /\ ds[i].sku = s
     /\ ds[i].reorder_required
     /\ ds[i].order_quantity >= qty

(* C12, as claimed: when Optimize has run, every active SKU whose stock is *)
(* below its threshold has a decision with reorder_required = true and     *)
(* order_quantity >= max(min_order_qty, 2 x threshold - current_stock),    *)
(* min_order_qty being the inventory record's.                             *)
C12_AsClaimed ==
  [][(pc = "optimize_cost" /\ pc' = "finance") =>
       \A s \in DOMAIN cs.inventory_data :
          LET item == cs.inventory_data[s] IN
          (store[s].is_active /\ item.quantity < item.threshold) =>
             OrdersAtLeast(cs'.decisions, s,
                           Max(store[s].min_order_qty,
                               2 * item.threshold - item.quantity))]_vars

(* C12 where it does hold: a SKU below its threshold that reaches Optimize *)
(* is ordered up to twice the threshold, whatever its forecast.            *)
C12_ReachingOptimize ==
  [][(pc = "optimize_cost" /\ pc' = "finance") =>
       \A i \in 1..Len(cs.constrained_skus) :
          LET item == cs.constrained_skus[i].inventory_item IN
          item.quantity < item.threshold =>
             OrdersAtLeast(cs'.decisions, cs.constrained_skus[i].sku,
                           2 * item.threshold - item.quantity)]_vars

(* A < B for two sets of SKU ids read as ascending tuples, in              *)
(* lexicographic order (a proper prefix comes first)                       *)
LexLess(A, B) ==
  /\ A # B
  /\ LET D == (A \ B) \cup (B \ A)
         m == CHOOSE x \in D : \A y \in D : x <= y
     IN IF m \in A THEN \E x \in B : x > m ELSE \A x \in A : x < m

(* a Finance pass that ran the solver to the end *)
SolvedPass ==
  /\ pc = "finance"
  /\ ran' # ran
  /\ caught' = caught
  /\ FinanceCandidates(cs) # <<>>

(* C13, as claimed: the approved set of a Finance pass is, among the       *)
(* selections of maximum total projected value within the budget, the one  *)
(* whose SKU-id tuple is lexicographically smallest, so equal proposals    *)
(* and budget always give the same approved set.                           *)
C13_AsClaimed ==
  [][SolvedPass =>
       LET items == FinanceCandidates(cs)
           approved == SkusOf(cs'.decisions)
       IN \A sel \in OptimalSelections(items, Budget(cs)) :
             ~LexLess(SkusOf(Pick(items, sel)), approved)]_vars

(* C13 where it does hold: the approved set is within the budget and no    *)
(* selection within the budget has a larger total projected value.         *)
C13_MaximumValue ==
  [][SolvedPass =>
       LET items == FinanceCandidates(cs)
           approved == {i \in 1..Len(items) : items[i].sku \in SkusOf(cs'.decisions)}
       IN /\ SelCost(items, approved) <= Budget(cs)
          /\ \A sel \in SUBSET (1..Len(items)) :
                SelCost(items, sel) <= Budget(cs) =>
                   SelValue(items, sel) <= SelValue(items, approved)]_vars

(* node `name` has run and returned (the node that follows it has run or   *)
(* is due)                                                                 *)
Returned(name, next) ==
  \E i \in 1..Len(ran) : ran[i] = name /\ (i < Len(ran) \/ pc = next)

(* processing SKU s raised inside Analyze Trends or inside Optimize Cost *)
ThrewInAnalyze(s) ==
  /\ Returned("analyze_trends", "check_constraints")
  /\ store[s].an_err
  /\ \E i \in 1..Len(cs.forecast_results) : cs.forecast_results[i].sku = s

ThrewInOptimize(s) ==
  /\ Returned("optimize_cost", "finance")
  /\ \E i \in 1..Len(cs.constrained_skus) :
        /\ cs.constrained_skus[i].sku = s
        /\ "error" \in DOMAIN process_optimization(cs.constrained_skus[i])

(* C14, as claimed: a SKU whose processing raised inside Analyze Trends or *)
(* Optimize Cost is in failed_skus with an entry in errors, and has no     *)
(* decision.                                                               *)
C14_AsClaimed ==
  \A s \in SKUS :
     (ThrewInAnalyze(s) \/ ThrewInOptimize(s)) =>
        /\ s \in Range(cs.failed_skus)
        /\ \E i \in 1..Len(cs.errors) : cs.errors[i][1] = s
        /\ s \notin SkusOf(cs.decisions)

(* C14 where it does hold: such a SKU gets no decision, and the stage that *)
(* caught its exception hands over to the next one.                        *)
C14_SkippedOnly ==
  \A s \in SKUS :
     (ThrewInAnalyze(s) \/ ThrewInOptimize(s)) =>
        s \notin SkusOf(cs.decisions) \cup SkusOf(cs.finance_rejections)

(* what Action reports as the order's total_cost: quantity x the product's *)
(* unit price                                                              *)
OrderCost(a) == a.quantity * store[a.sku].unit_price

(* C15, as claimed: every order Action wrote for a decision costing more   *)
(* than the approval threshold has status Needs Approval, every other      *)
(* order has status Pending.                                               *)
C15_AsClaimed ==
  \A i \in 1..Len(cs.actions) :
     cs.actions[i].status = IF OrderCost(cs.actions[i]) > approval_threshold
                            THEN "Needs Approval" ELSE "Pending"

(* C15 where it does hold: orders within the threshold are Pending *)
C15_SmallOrdersPending ==
  \A i \in 1..Len(cs.actions) :
     OrderCost(cs.actions[i]) <= approval_threshold =>
        cs.actions[i].status = "Pending"

(* ======================= claims about the event bus ==================== *)
IdsIn(q) == {q[i].id : i \in 1..Len(q)}

(* C16, as claimed: with several threads in log_event / get_queue for the  *)
(* same job, every thread is handed the one queue registered for the job,  *)
(* and as long as no more events were logged than the queue can hold,      *)
(* every event whose append has returned is in that registered queue.      *)
C16_AsClaimed ==
  /\ \A t \in Threads :
        threads[t].queue \in {0} \cup {job_events[i] : i \in 1..Len(job_events)}
  /\ job_events # <<>> /\ Len(appended) <= QueueCap
       => \A i \in 1..Len(appended) : appended[i] \in IdsIn(deques[job_events[1]])

(* C16 where it does hold: the append itself loses nothing; every logged   *)
(* event is in the deque its thread was handed, below that deque's         *)
(* capacity.                                                               *)
C16_AppendedSomewhere ==
  Len(appended) <= QueueCap =>
     \A i \in 1..Len(appended) :
        \E d \in 1..Len(deques) : appended[i] \in IdsIn(deques[d])

(* ================== claims about the job and its stream ================ *)
EventFrames == {i \in 1..Len(frames) : frames[i].type = "event"}

(* C7: the events a consumer receives are in emission order: of two        *)
(* delivered events, the one logged first is delivered first, whatever the *)
(* number of polling iterations between them.                              *)
C7_EmissionOrder ==
  \A i, j \in EventFrames : i < j => frames[i].id < frames[j].id

(* two events delivered in different polling iterations (a status frame    *)
(* lies between them)                                                      *)
C7_Witness ==
  \E i, k \in EventFrames :
     \E j \in 1..Len(frames) : i < j /\ j < k /\ frames[j].type = "status"

(* C8, as claimed: the status only moves queued -> running -> completed or *)
(* queued -> running -> failed, and completed and failed are final.        *)
C8_AsClaimed ==
  [][job_status' # job_status =>
       <<job_status, job_status'>> \in
          {<<"none", "queued">>, <<"queued", "running">>,
           <<"running", "completed">>, <<"running", "failed">>}]_vars

(* C8, amended: besides queued -> running -> {completed, failed} a job     *)
(* that fails before it is marked running goes queued -> failed; no other  *)
(* transition occurs, and completed and failed are final.                  *)
C8_Transitions ==
  [][job_status' # job_status =>
       <<job_status, job_status'>> \in
          {<<"none", "queued">>, <<"queued", "running">>,
           <<"queued", "failed">>,
           <<"running", "completed">>, <<"running", "failed">>}]_vars

(* a completed job has lived through a server restart *)
C8_Witness == job_status = "completed" /\ restarts = 1 /\ worker = "done"

IsTerminalFrame(f) == f.type = "status" /\ f.status \in {"completed", "failed"}

TerminalFrames == {i \in 1..Len(frames) : IsTerminalFrame(frames[i])}

(* C9, as claimed: a closed stream has delivered a terminal status frame   *)
(* and ended right after the first one.                                    *)
C9_AsClaimed ==
  consumer = "closed" =>
     \E i \in TerminalFrames :
        /\ \A j \in TerminalFrames : i <= j
        /\ i = Len(frames) - 1

(* C9, amended: a terminal status frame ends the stream: nothing but the   *)
(* close frame follows it; a stream that closes without one has polled     *)
(* PollLimit times or found no job.                                        *)
C9_TerminalFrameEndsStream ==
  /\ \A i \in TerminalFrames :
        \/ i = Len(frames)
        \/ i = Len(frames) - 1 /\ frames[Len(frames)].type = "close"
  /\ (consumer = "closed" /\ TerminalFrames = {}) =>
        \/ polls = PollLimit
        \/ \E i \in 1..Len(frames) : frames[i].type = "error"

(* a stream that delivered events, then the terminal frame, then closed *)
C9_Witness ==
  /\ consumer = "closed"
  /\ TerminalFrames # {}
  /\ EventFrames # {}

(* the ids held by deque q, oldest first *)
IdsOf(q) == [i \in 1..Len(q) |-> q[i].id]

(* the last Min(Len(s), QueueCap) entries of s *)
LastOf(s) ==
  LET k == Min(Len(s), QueueCap) IN [i \in 1..k |-> s[Len(s) - k + i]]

(* C17, as claimed: the bus never holds more than QueueCap events, and it  *)
(* always holds the most recent (at most QueueCap) events logged for the   *)
(* cycle, in emission order: an event logged at capacity displaces the     *)
(* oldest one and nothing else ever leaves the bus.                        *)
C17_AsClaimed ==
  /\ \A d \in 1..Len(deques) : Len(deques[d]) <= QueueCap
  /\ job_events = <<>> => appended = <<>>
  /\ job_events # <<>> => IdsOf(deques[job_events[1]]) = LastOf(appended)

(* C17 where it does hold: no deque ever exceeds QueueCap, and as long as  *)
(* get_queue has created a single deque for the job, that deque holds the  *)
(* most recent events in emission order                                    *)
C17_Bounded ==
  /\ \A d \in 1..Len(deques) : Len(deques[d]) <= QueueCap
  /\ Len(deques) = 1 => IdsOf(deques[1]) = LastOf(appended)

(* the ids of the job's bus in the single-producer model, oldest first *)
Retained == IdsOf(queue)

(* the last Min(n, QueueCap) of the events 1..n, in emission order *)
MostRecent(n) ==
  LET k == Min(n, QueueCap) IN [i \in 1..k |-> n - k + i]

(* C17 with one producer and get_queue taken as one step: the bus holds    *)
(* the most recent (at most QueueCap) events in emission order until a     *)
(* restart empties it                                                      *)
C17_DropOldest ==
  /\ Len(queue) <= QueueCap
  /\ restarts = 0 => Retained = MostRecent(emitted)
  /\ Retained \in {<<>>, MostRecent(emitted)}

(* C18: a server start leaves no job running: a job found running is       *)
(* marked failed with an error that names the restart, and a job in any    *)
(* other status keeps its status and its error.                            *)
C18_StartupRecovery ==
  [][restarts' # restarts =>
       /\ job_status' # "running"
       /\ job_status = "running" =>
            job_status' = "failed" /\ job_error' = "Interrupted by server restart"
       /\ job_status # "running" =>
            job_status' = job_status /\ job_error' = job_error]_vars

(* the server restarted while the job was running *)
C18_Witness ==
  /\ restarts > 0
  /\ job_status = "failed"
  /\ job_error = "Interrupted by server restart"

(* ==================== claims about the forecast node =================== *)
(* C19, as claimed: the estimator is invoked only while the call counter   *)
(* is below MAX_LLM_CALLS, the number of its invocations in a cycle never  *)
(* exceeds MAX_LLM_CALLS, and once the counter has reached the cap every   *)
(* remaining item gets the statistical or zero fallback.                   *)
C19_AsClaimed ==
  /\ forecasting.invocations <= MAX_LLM_CALLS
  /\ forecasting.pc = "llm" => forecasting.llm_calls_made < MAX_LLM_CALLS

(* C19 where it does hold: the estimator is invoked only while the counter *)
(* is below the cap, the counter never exceeds it, and it counts exactly   *)
(* the items forecast by the estimator                                     *)
C19_CounterBelowCap ==
  /\ forecasting.pc = "llm" => forecasting.llm_calls_made < MAX_LLM_CALLS
  /\ forecasting.llm_calls_made <= MAX_LLM_CALLS
  /\ forecasting.llm_calls_made =
       Cardinality({i \in 1..Len(forecasting.forecasts) :
                      forecasting.forecasts[i].how = "llm"})

(* ====================== claims about inactive SKUs ===================== *)
Inactive == {s \in SKUS : ~store[s].is_active}

(* C20, as claimed: a SKU whose inventory record is inactive passes Check  *)
(* Constraints in no cycle: it has no constrained entry, no reorder        *)
(* decision, no negotiation proposal and no executed order.                *)
C20_AsClaimed ==
  \A s \in Inactive :
     /\ \A i \in 1..Len(cs.constrained_skus) : cs.constrained_skus[i].sku # s
     /\ \A i \in 1..Len(cs.decisions) :
           cs.decisions[i].sku = s => ~cs.decisions[i].reorder_required
     /\ \A i \in 1..Len(cs.negotiation_proposals) :
           cs.negotiation_proposals[i].sku # s
     /\ \A i \in 1..Len(cs.actions) : cs.actions[i].sku # s

(* C20 where it does hold: an item that carries is_active = false into     *)
(* Check Constraints is dropped there; the fetched records never carry the *)
(* field                                                                   *)
C20_NeverCarried ==
  /\ \A s \in DOMAIN cs.inventory_data :
        "is_active" \notin DOMAIN cs.inventory_data[s]
  /\ \A i \in 1..Len(cs.analyzed_skus) :
        ConstraintOutcome([cs.analyzed_skus[i] EXCEPT
                             !.inventory_item = @ @@ [is_active |-> FALSE]])
          = "inactive"

(* ==================== claims about rounds and ordering ================= *)
(* C21: at every point of every cycle                                      *)
(* 0 <= negotiation_rounds <= max_negotiation_rounds.                      *)
C21_RoundsBounded ==
  /\ 0 <= cs.negotiation_rounds
  /\ cs.negotiation_rounds <= cs.max_negotiation_rounds

(* a negotiation round has been counted and Finance has run again *)
C21_Witness ==
  /\ cs.negotiation_rounds = 1
  /\ Count("negotiation") = 1
  /\ Count("finance") = 2

(* the stages that run once, in this order, before the first Finance pass *)
Opening == <<"fetch_data", "forecast", "analyze_trends", "check_constraints",
             "optimize_cost", "finance">>

Completed == pc \in {"END", "returned"} \/ result = "completed"

(* C22: in every completed cycle fetch, forecast, analyze, constraints and *)
(* optimize run exactly once, in that order, before the first Finance      *)
(* pass; Action runs exactly once, after the last Finance pass; Memory     *)
(* runs exactly once, after Action, and is the last stage of the cycle.    *)
C22_StageOrder ==
  Completed =>
    LET n == Len(ran) IN
    /\ n >= Len(Opening) + 2
    /\ SubSeq(ran, 1, Len(Opening)) = Opening
    /\ \A i \in (Len(Opening) + 1)..(n - 2) : ran[i] \in {"negotiation", "finance"}
    /\ ran[n - 2] = "finance"
    /\ ran[n - 1] = "action"
    /\ ran[n] = "memory"

(* a completed cycle with a negotiation round between two Finance passes *)
C22_Witness ==
  /\ result = "completed"
  /\ Count("negotiation") = 1
  /\ Count("finance") = 2
  /\ cs.actions # <<>>

(* =================== claims about the stream's sessions ================ *)
(* C23, as claimed: between polling iterations and after the stream has    *)
(* ended the subscription holds no store session; the only sessions it     *)
(* acquires are the ones opened for a single status check.                 *)
C23_AsClaimed ==
  consumer \in {"disconnected", "events", "closing", "closed"} => sessions = {}

(* C23 where it does hold: the session opened for a status check is        *)
(* released on every exit path of the iteration, and nothing is held once  *)
(* the stream has ended                                                    *)
C23_ScopedSessionReleased ==
  /\ "scope_db" \notin sessions
  /\ consumer \in {"disconnected", "closed"} => sessions = {}

(* ============================ claims about Fetch ======================= *)
Fetched(st) ==
  <<st.inventory_data, st.sales_by_sku, st.recent_sales_revenue>>

(* C24: a run of Fetch that follows another run against the same store     *)
(* snapshot leaves inventory_data, sales_by_sku and recent_sales_revenue    *)
(* as they were, and what any run leaves is what a run on a fresh state     *)
(* would leave: nothing of an earlier run is accumulated.                   *)
C24_FetchIdempotent ==
  [][ran' = Append(ran, "fetch_data") =>
       /\ (ran # <<>> /\ ran[Len(ran)] = "fetch_data") => Fetched(cs') = Fetched(cs)
       /\ Fetched(cs') =
            Fetched(fetch_data_node(InitialState(0), store, sales_revenue, TRUE))]_vars

(* Fetch ran on one snapshot, the store changed, and Fetch then ran twice  *)
(* in a row on the new snapshot                                            *)
C24_Witness ==
  /\ ran = <<"fetch_data", "update", "fetch_data", "fetch_data">>
  /\ sales_revenue > 0
  /\ cs.recent_sales_revenue = sales_revenue

(* ====================== claims about the kernel ======================== *)
ReorderPointReturned ==
  kernel.pc = "returned" /\ kernel.fn = "calculate_dynamic_reorder_point"

(* C25, as claimed: for every metrics record with non-negative demand the  *)
(* dynamic reorder point is at least lead_time_days x daily_avg_demand.    *)
C25_AsClaimed ==
  ReorderPointReturned =>
     10 * kernel.output >= kernel.input.lead_time_days * kernel.input.daily_avg_tenths

(* C25 where it does hold: the reorder point is less than one unit below   *)
(* the lead-time demand, and not below it when the lead-time demand is a   *)
(* whole number of units                                                   *)
C25_WithinOneUnit ==
  ReorderPointReturned =>
     LET lead_time_demand_tenths ==
           kernel.input.lead_time_days * kernel.input.daily_avg_tenths
     IN /\ 10 * kernel.output > lead_time_demand_tenths - 10
        /\ lead_time_demand_tenths % 10 = 0 =>
              10 * kernel.output >= lead_time_demand_tenths

(* ================== claims about the second Finance pass =============== *)
ReorderSkus(ds) == {ds[i].sku : i \in {j \in 1..Len(ds) : ds[j].reorder_required}}

Round1Pass == pc = "finance" /\ ran' # ran /\ cs.negotiation_rounds > 0

(* C26, as claimed: the Finance pass that follows a negotiation round      *)
(* keeps track of every proposal approved in Round 0: each of them is      *)
(* afterwards either in decisions or in finance_rejections.                *)
C26_AsClaimed ==
  [][Round1Pass =>
       ReorderSkus(cs.decisions)
          \subseteq SkusOf(cs'.decisions) \cup SkusOf(cs'.finance_rejections)]_vars

(* C26 where it does hold: what the pass after a negotiation round leaves  *)
(* in decisions and finance_rejections are the negotiated proposals, or,   *)
(* if the pass changed nothing, what Round 0 left                          *)
C26_ProposalsOnly ==
  [][Round1Pass =>
       \/ SkusOf(cs'.decisions) \cup SkusOf(cs'.finance_rejections)
             \subseteq SkusOf(cs.negotiation_proposals)
       \/ cs'.decisions = cs.decisions]_vars

(* a Finance solve of this cycle has completed: decisions is what it (or   *)
(* the completed Round-0 solve before a failed second pass) approved       *)
SolveCompleted(st) == st.finance_feedback \in {"reviewed", "re_optimized"}

Ordered(st, a) ==
  \E i \in 1..Len(st.decisions) :
     /\ st.decisions[i].sku = a.sku
     /\ st.decisions[i].order_quantity = a.quantity

(* C27, as claimed: Action only executes reorder proposals that a          *)
(* completed Finance solve of the cycle approved; after a Finance pass     *)
(* that ended in an error nothing Finance has not approved is ordered.     *)
C27_AsClaimed ==
  cs.actions # <<>> => SolveCompleted(cs)

(* C27 where it does hold: Action orders nothing but what it finds in      *)
(* decisions, and after a completed solve that is within the budget        *)
C27_OrdersFromDecisions ==
  /\ \A i \in 1..Len(cs.actions) : Ordered(cs, cs.actions[i])
  /\ (cs.actions # <<>> /\ SolveCompleted(cs)) => ApprovedCost(cs) <= Budget(cs)

(* the number of events logged before the terminal status was committed:   *)
(* the COMPLETE event follows the commit, the ERROR event precedes it      *)
LoggedBeforeTerminal ==
  IF job_status = "completed" /\ worker = "done" THEN emitted - 1 ELSE emitted

Delivered == {frames[i].id : i \in EventFrames}

(* no restart emptied the bus, the deque never overflowed and no two       *)
(* events share a dedupe key: every logged event is in the queue, once     *)
QueueComplete ==
  /\ restarts = 0
  /\ emitted <= QueueCap
  /\ \A i, j \in 1..Len(queue) : i # j => queue[i].key # queue[j].key

(* C28, as claimed: when the terminal status frame is delivered, every     *)
(* event logged before the terminal status was committed has been          *)
(* delivered, whatever the interleaving of the worker with the consumer's  *)
(* poll.                                                                   *)
C28_AsClaimed ==
  (TerminalFrames # {} /\ QueueComplete) =>
     \A id \in 1..LoggedBeforeTerminal : id \in Delivered

(* C28 where it does hold: after the pass over the snapshot, before the    *)
(* status is read, nothing that was in the queue at the snapshot is        *)
(* undelivered unless the worker logged it since                           *)
C28_SnapshotDelivered ==
  (consumer = "status" /\ QueueComplete) =>
     \A i \in 1..Len(queue) :
        queue[i].id \in Delivered \/ queue[i].key \notin sent_events

(* ======================= claims about Negotiation ====================== *)
(* C30, as claimed: a counter-proposal is made only for a rejected item    *)
(* whose stock in the cycle's inventory snapshot is below its threshold.   *)
C30_AsClaimed ==
  \A i \in 1..Len(cs.negotiation_proposals) :
     LET item == cs.inventory_data[cs.negotiation_proposals[i].sku]
     IN item.quantity < item.threshold

(* C30 as the code has it: the decisions carry no inventory_item, so the   *)
(* test reads stock 0 against threshold 10 and a Negotiation pass proposes *)
(* for every rejected item, one proposal each, in order                    *)
C30_EveryRejectionProposed ==
  [][cs'.negotiation_rounds # cs.negotiation_rounds =>
       /\ Len(cs'.negotiation_proposals) = Len(cs.finance_rejections)
       /\ \A i \in 1..Len(cs.finance_rejections) :
             cs'.negotiation_proposals[i].sku = cs.finance_rejections[i].sku]_vars

CounterProposalReturned ==
  /\ kernel.pc = "returned"
  /\ kernel.fn = "generate_counter_arguments"
  /\ kernel.output # <<>>

(* C29, as claimed: for every counter-proposal and every original quantity *)
(* of at least 1, new_quantity <= original_quantity and new_cost <= the    *)
(* rejected item's original total cost.                                    *)
C29_AsClaimed ==
  CounterProposalReturned =>
     /\ kernel.output[1].new_quantity <= kernel.input.order_quantity
     /\ kernel.output[1].new_cost <= TotalCost(kernel.input)

(* C29 where it does hold: an order of 10 units or more is never raised,   *)
(* and a smaller one becomes an order of exactly 10                        *)
C29_ReducesFromTen ==
  CounterProposalReturned =>
     IF kernel.input.order_quantity >= 10
     THEN /\ kernel.output[1].new_quantity <= kernel.input.order_quantity
          /\ kernel.output[1].new_cost <= TotalCost(kernel.input)
     ELSE kernel.output[1].new_quantity = 10

(* ==================== claims about the reorder test ==================== *)
(* the decisions of the normal optimization path *)
NormalDecisions ==
  {i \in 1..Len(cs.decisions) : "reorder_point" \in DOMAIN cs.decisions[i].details}

(* C31, as claimed: for a SKU at or above its threshold reorder_required   *)
(* holds exactly when current stock plus the pending order quantity Fetch  *)
(* found is below the reorder point, or zero.                              *)
C31_AsClaimed ==
  (pc = "finance" /\ cs.negotiation_rounds = 0) =>
     \A i \in NormalDecisions :
        LET d == cs.decisions[i]
            effective_stock == cs.inventory_data[d.sku].quantity
                                 + Get(cs.pending_orders_by_sku, d.sku, 0)
        IN d.reorder_required <=>
             (effective_stock < d.details.reorder_point \/ effective_stock = 0)

(* C31 as the code has it: the metrics are extracted with pending_orders   *)
(* left at 0, so the test compares the current stock alone                 *)
C31_CurrentStockOnly ==
  (pc = "finance" /\ cs.negotiation_rounds = 0) =>
     \A i \in NormalDecisions :
        LET d == cs.decisions[i]
            current_stock == cs.inventory_data[d.sku].quantity
        IN d.reorder_required <=>
             (current_stock < d.details.reorder_point \/ current_stock = 0)

(* ================= claims about budget infeasibility =================== *)
(* the proposals of Optimize as Round 0 prices them *)
Proposals0(st) == Reorders(ScoreInPlace(OptimizedDecisions(st)))

(* Optimize has run and none of its proposals fits the budget *)
NoFit ==
  /\ Count("optimize_cost") = 1
  /\ pc # "finance" \/ Count("finance") > 0
  /\ Proposals0(cs) # <<>>
  /\ \A i \in 1..Len(Proposals0(cs)) : TotalCost(Proposals0(cs)[i]) > Budget(cs)

(* no reduced proposal fits the budget either *)
NoFitReduced ==
  \A i \in 1..Len(cs.negotiation_proposals) :
     cs.negotiation_proposals[i].new_cost > Budget(cs)

InfeasibleCycle ==
  /\ (NoFit /\ Count("finance") = 1 /\ ran[Len(ran)] = "finance") =>
        /\ cs.decisions = <<>>
        /\ Len(cs.finance_rejections) = Len(Proposals0(cs))
  /\ (NoFit /\ Completed) => Count("negotiation") = 1
  /\ (NoFit /\ Completed /\ NoFitReduced) =>
        /\ cs.actions = <<>>
        /\ cs.finance_feedback # ""

(* C32, as claimed: when no proposal fits the budget in Round 0 the        *)
(* approved set is empty and every proposal is rejected, Negotiation runs  *)
(* exactly once, and if the re-optimization approves nothing either the    *)
(* cycle ends with no executed action and a non-empty finance_feedback.    *)
C32_AsClaimed == InfeasibleCycle

(* C32 where it does hold: in the cycles in which no stage's handler       *)
(* caught an exception                                                     *)
C32_NothingCaught == caught = {} => InfeasibleCycle

(* an infeasible cycle without a caught exception that ended with nothing  *)
(* approved after one negotiation round                                    *)
C32_Reached ==
  /\ NoFit /\ Completed /\ NoFitReduced /\ caught = {}
  /\ Count("negotiation") = 1
  /\ cs.negotiation_proposals # <<>>
  /\ cs.actions = <<>>

(* ===================== claims about job termination ==================== *)
(* C33, as claimed: every job created by run_once eventually reaches       *)
(* completed or failed, also when the server restarts while the job is     *)
(* queued or running.                                                      *)
C33_AsClaimed ==
  job_status \in {"queued", "running"} ~> job_status \in {"completed", "failed"}

(* C33 where it does hold: a job that was running when the server went     *)
(* down is not left running by the restart                                 *)
C33_RunningRecovered == worker = "dead" => job_status # "running"

(* ================= claims about the fallback decision ================== *)
(* Optimize has just handed over to the first Finance pass *)
AfterOptimize == pc = "finance" /\ Count("finance") = 0

(* the active SKUs of the snapshot whose forecast confidence is below      *)
(* MIN_CONFIDENCE and whose stock is below the threshold                   *)
LowConfidenceBelowThreshold ==
  {s \in DOMAIN cs.inventory_data :
     /\ store[s].is_active
     /\ \E i \in 1..Len(cs.forecast_results) :
           /\ cs.forecast_results[i].sku = s
           /\ cs.forecast_results[i].confidence < MIN_CONFIDENCE_PCT
     /\ cs.inventory_data[s].quantity < cs.inventory_data[s].threshold}

(* C34, as claimed: for an active SKU with forecast confidence below       *)
(* MIN_CONFIDENCE and current_stock < threshold the cycle's decision is    *)
(* the fallback decision: order_quantity = max(min_order_qty,              *)
(* 2 x threshold - current_stock), urgency High, type threshold_fallback.  *)
C34_AsClaimed ==
  AfterOptimize =>
     \A s \in LowConfidenceBelowThreshold :
        \E i \in 1..Len(cs.decisions) :
           LET d == cs.decisions[i] IN
           /\ d.sku = s
           /\ d.reorder_required
           /\ d.order_quantity =
                Max(store[s].min_order_qty,
                    2 * cs.inventory_data[s].threshold - cs.inventory_data[s].quantity)
           /\ Get(d, "urgency_level", "") = "HIGH"
           /\ Get(d.details, "type", "") = "threshold_fallback"

(* C34 as the code has it: such a SKU, when it reaches Optimize, gets the  *)
(* threshold override, with the minimum order quantity read as 1           *)
C34_OverrideDecision ==
  AfterOptimize =>
     \A s \in LowConfidenceBelowThreshold :
        (\E k \in 1..Len(cs.constrained_skus) : cs.constrained_skus[k].sku = s) =>
           \E i \in 1..Len(cs.decisions) :
              LET d == cs.decisions[i] IN
              /\ d.sku = s
              /\ d.reorder_required
              /\ d.order_quantity =
                   Max(1, 2 * cs.inventory_data[s].threshold
                            - cs.inventory_data[s].quantity)
              /\ Get(d, "urgency_level", "") = "HIGH"
              /\ Get(d.details, "type", "") = "threshold_override"

(* ================== claims about the Round-0 scoring =================== *)
(* the first Finance pass has completed its solve and nothing ran since *)
AfterReview ==
  /\ Count("finance") = 1
  /\ ran[Len(ran)] = "finance"
  /\ cs.finance_feedback = "reviewed"

(* the proposals the pass scored: the approved and the rejected ones *)
ScoredProposals == cs.decisions \o cs.finance_rejections

(* twice the projected value the claim gives for a proposal, from the      *)
(* SKU's demand data in the snapshot                                       *)
ClaimedValue2(d) ==
  LET daily_avg_demand == cs.sales_by_sku[d.sku]
      current_stock == cs.inventory_data[d.sku].quantity
      lead_time == cs.inventory_data[d.sku].lead_time_days
      unit_cost == cs.inventory_data[d.sku].unit_price
      multiplier ==
        IF daily_avg_demand > 0 /\ current_stock < lead_time * daily_avg_demand
        THEN STOCKOUT_RISK_HIGH_MULTIPLIER
        ELSE IF daily_avg_demand > 0
                /\ current_stock < 2 * lead_time * daily_avg_demand
             THEN STOCKOUT_RISK_MEDIUM_MULTIPLIER
             ELSE 1
  IN unit_cost * daily_avg_demand * 30 * multiplier

(* C35, as claimed: in Round 0 every proposal is scored from its SKU's     *)
(* demand data: projected value = 0.5 x unit_cost x daily_avg_demand x 30  *)
(* x risk multiplier, so a SKU with positive demand has positive value.    *)
C35_AsClaimed ==
  AfterReview =>
     \A i \in 1..Len(ScoredProposals) :
        LET d == ScoredProposals[i] IN
        /\ Value2(d) = ClaimedValue2(d)
        /\ cs.sales_by_sku[d.sku] > 0 => Value2(d) > 0

(* C35 as the code has it: the decisions carry neither daily_avg_demand    *)
(* nor current_stock, so every proposal is scored with demand 0 and has    *)
(* projected value 0                                                       *)
C35_ZeroValue ==
  AfterReview =>
     \A i \in 1..Len(ScoredProposals) : Value2(ScoredProposals[i]) = 0

(* ================ claims about the high-demand event =================== *)
HighDemand ==
  {i \in 1..Len(cs.forecast_results) : cs.forecast_results[i].total_demand > 100}

(* the forecast events a subscriber can get: those on the job's event bus, *)
(* which the stream endpoint reads, and those on a StreamManager queue     *)
ForecastEventFor(sku) ==
  \/ \E i \in 1..Len(events) : events[i].type = "forecast" /\ events[i].sku = sku
  \/ \E c \in DOMAIN _streams :
        \E i \in 1..Len(_streams[c]) :
           _streams[c][i].type = "forecast" /\ _streams[c][i].sku = sku

(* C36, as claimed: for every SKU whose 7-day forecast total exceeds 100   *)
(* the forecast stage puts a forecast event on the cycle's event stream,   *)
(* where a subscribed consumer receives it.                                *)
C36_AsClaimed ==
  \A i \in HighDemand : ForecastEventFor(cs.forecast_results[i].sku)

(* C36 as the code has it: no stream is ever created in StreamManager, so  *)
(* emit drops every event, and the job's event bus gets no forecast event  *)
C36_NothingEmitted ==
  /\ _streams = <<>>
  /\ \A i \in 1..Len(events) : events[i].type # "forecast"

(* ================= claims about the streamed dialogues ================= *)
(* the Finance dialogues on the cycle's event stream, in emission order *)
StreamedFinance ==
  SelectSeq(events, LAMBDA e : e.type = "agent_dialogue" /\ e.stage = "FINANCE")

(* C37: every entry appended to agent_dialogues is emitted to the cycle's  *)
(* event stream exactly once: the Finance dialogues on the stream are the  *)
(* entries of agent_dialogues, each once and in order, after every stage   *)
(* and so at the end of the cycle; none is repeated by the second Finance  *)
(* pass and none is left unstreamed.                                       *)
C37_ExactlyOnce ==
  /\ StreamedFinance = StreamDialogues("FINANCE", cs.agent_dialogues)
  /\ cs.streamed_dialogues_count = Len(cs.agent_dialogues)

(* a completed cycle whose two Finance passes both appended dialogues *)
C37_Witness ==
  /\ result = "completed"
  /\ Count("finance") = 2
  /\ \E i, j \in 1..Len(cs.agent_dialogues) :
        /\ cs.agent_dialogues[i].type = "rejection"
        /\ cs.agent_dialogues[j].type \in {"accept_proposal", "reject_proposal"}

(* ==================== claims about the orders written =================== *)
ActionRan == Count("action") > 0 /\ pc # "raised"

OnePerSku(rows) == \A i, j \in 1..Len(rows) : rows[i].sku = rows[j].sku => i = j

(* the approved reorder decisions whose order was written, as order rows *)
ApprovedAndWritten ==
  IF SolveCompleted(cs) \/ Reorders(cs.decisions) = <<>>
  THEN SelectSeq(ExecutedActions(cs.decisions, SKUS),
                 LAMBDA a : \E i \in 1..Len(orders) : orders[i] = a)
  ELSE <<>>

(* C38, as claimed: in a single cycle Action writes at most one order per  *)
(* SKU, and the executed actions list is exactly the reorder decisions     *)
(* that Finance approved and whose order was written.                      *)
C38_AsClaimed ==
  /\ OnePerSku(orders)
  /\ ActionRan => cs.actions = ApprovedAndWritten

(* C38 where it does hold: at most one order per SKU is written, and every *)
(* executed action is a reorder decision found in decisions whose order    *)
(* was written, each at most once                                          *)
C38_OnePerSku ==
  /\ OnePerSku(orders)
  /\ OnePerSku(cs.actions)
  /\ \A i \in 1..Len(cs.actions) :
        /\ Ordered(cs, cs.actions[i])
        /\ \E j \in 1..Len(orders) : orders[j] = cs.actions[i]

(* an order was written whose execution still came back as failed *)
C38_WrittenUnlisted ==
  /\ ActionRan
  /\ SolveCompleted(cs)
  /\ \E j \in 1..Len(orders) :
        \A i \in 1..Len(cs.actions) : cs.actions[i].sku # orders[j].sku

(* ================== claims about the forecast coverage ================= *)
AfterForecast == pc = "analyze_trends" /\ Count("analyze_trends") = 0

ForecastEntries(s) ==
  Cardinality({i \in 1..Len(cs.forecast_results) : cs.forecast_results[i].sku = s})

(* SKU s has exactly one forecast entry, or none and a place in failed_skus *)
Covered(s) ==
  \/ ForecastEntries(s) = 1
  \/ ForecastEntries(s) = 0 /\ s \in Range(cs.failed_skus)

(* C39, as claimed: after the Forecast stage every SKU of inventory_data   *)
(* has exactly one forecast entry or is recorded in failed_skus, whatever  *)
(* the external estimator answered.                                        *)
C39_AsClaimed ==
  AfterForecast => \A s \in DOMAIN cs.inventory_data : Covered(s)

(* C39 where it does hold: unless the node's outer handler caught an       *)
(* error every SKU is covered; when it did, no SKU has an entry and       *)
(* FORECAST_NODE is recorded in place of the SKUs                          *)
C39_UnlessNodeFailed ==
  AfterForecast =>
    IF "forecast" \in caught
    THEN /\ cs.forecast_results = <<>>
         /\ FORECAST_NODE \in Range(cs.failed_skus)
         /\ \A s \in DOMAIN cs.inventory_data : s \notin Range(cs.failed_skus)
    ELSE \A s \in DOMAIN cs.inventory_data : Covered(s)

(* the node's handler caught an error while inventory_data held SKUs *)
C39_Reached ==
  AfterForecast /\ "forecast" \in caught /\ DOMAIN cs.inventory_data # {}

====
